---- MODULE Spec2Model ----
(***************************************************************************)
(* A model of teamarr's expiring caches (utilities/cache.py), its status   *)
(* records and streamed generation (api/), and the event group processor   *)
(* (consumers/event_group_processor.py).                                   *)
(***************************************************************************)
EXTENDS Integers, Sequences, FiniteSets, TLC

(***************************************************************************)
(* Bounds of the model.                                                    *)
(***************************************************************************)
MaxTime == 2        \* clock readings 0..MaxTime
MaxRequests == 2    \* get calls counted by the hit/miss counters

Keys == {"k1", "k2", "k3"}
\* keys of the durable cache, which has no capacity to exceed
PersistentKeys == {"k1", "k2"}
Values == {"a", "b"}
None == "None"

\* TTLCache(max_size=...), a positive size
MaxSize == 2
\* TTLCache(default_ttl_seconds=...) / PersistentTTLCache(default_ttl_seconds=...)
DefaultTtl == 1
\* ttl_seconds arguments: 0 stands for None (falsy, so the default is used)
TtlArgs == {0, 1}

VARIABLES
    variant,        \* which class the cache object is: "memory" or "durable"
    now,            \* the wall clock, datetime.now()
    cache,          \* TTLCache._cache: entries in dict insertion order
    service_cache,  \* rows of the service_cache table, by cache_key
    hits,           \* _hits
    misses,         \* _misses
    pending,        \* a set/cleanup_expired call past its clock read, waiting for the lock
    ret,            \* the value returned by the call that completed last
    evict,          \* history: what _evict_if_needed removed, if that call was a set
    probe,          \* history: what that call found, if it was a get
    gone,           \* history: keys read past expiry and not set since
    touched         \* history: per key, latest clock reading of a successful get or set

cacheVars == <<variant, now, cache, service_cache, hits, misses, pending,
               ret, evict, probe, gone, touched>>

VARIABLES
    refresh,        \* cache_refresh_status._status
    refreshRet,     \* what the last call returned, if it was start_refresh
    refreshPrev,    \* history: the record as a start_refresh returning False found it
    refreshCalls,   \* history: start_refresh calls since the last complete/fail
    refreshWins     \* history: how many of them returned True

refreshVars == <<refresh, refreshRet, refreshPrev, refreshCalls, refreshWins>>

VARIABLES
    gen,            \* generation_status: the generation status record
    syncRuns,       \* generate_epg requests inside run_full_generation
    phase,          \* per stream request: where generate_epg_stream / generate() is
    worker,         \* per stream request: where its run_generation thread is
    queue,          \* per stream request: progress_queue
    progress,       \* per stream request: progress callbacks made by its run
    emitted,        \* per stream request: the data events yielded, in order
    finals,         \* history: final statuses yielded (line 236)
    enq             \* history: the status snapshots the worker has put, in order

genVars == <<gen, syncRuns, phase, worker, queue, progress, emitted,
             finals, enq>>

VARIABLES
    today,          \* date.today()
    group,          \* the EventEPGGroup processed
    channels,       \* the ManagedChannel records
    result,         \* the ProcessingResult of the last run
    run,            \* history: the inputs and intermediate lists of the last run
    batch_result    \* the BatchProcessingResult of the last process_all_groups

orchVars == <<today, group, channels, result, run, batch_result>>

VARIABLES
    provider_cache, \* the provider_cache table: (provider, league, event_date) -> row
    cachePending,   \* a cache_events call between its date check and its INSERT
    cachedRet       \* what the last get_cached_events returned

storeVars == <<provider_cache, cachePending, cachedRet>>

VARIABLES
    match_cache,    \* the match cache table: fingerprint -> stored match result
    matchFeed,      \* the events the provider offers for the date asked about
    response,       \* the last match_streams request and its response
    purged,         \* history: the fingerprints the last purge_stale deleted
    feedChanged     \* history: the event data changed since the last response

matchVars == <<match_cache, matchFeed, response, purged, feedChanged>>

VARIABLES
    managed,        \* the local ManagedChannel records, by internal id
    external,       \* the external system's channels, by external id
    reconciled      \* the ReconciliationResult of the last reconcile call

reconVars == <<managed, external, reconciled>>

\* what the cache operations leave alone
VARIABLES
    persistent_cache_lock,  \* _persistent_cache_lock: the thread holding it, or NoThread
    storeCall       \* per thread: the PersistentTTLCache call it is in, and where

lockVars == <<persistent_cache_lock, storeCall>>

VARIABLES
    ttl_call,       \* a get_events_cache_ttl call: date.today(), its argument, its result
    fuzzy_call,     \* a FuzzyMatcher.matches_any call: its arguments and its result
    keyword_call    \* a check_exception_keyword call: its arguments and its result

moreVars == <<lockVars, ttl_call, fuzzy_call, keyword_call>>

notCache == <<refreshVars, genVars, orchVars, storeVars, matchVars, reconVars,
    moreVars>>

vars == <<cacheVars, refreshVars, genVars, orchVars, storeVars, matchVars,
          reconVars,
    moreVars>>

(***************************************************************************)
(* TTLCache: pure helpers                                                  *)
(***************************************************************************)
CacheEntry(k, v, e, l) ==
    [key |-> k, value |-> v, expires_at |-> e, last_accessed |-> l]

KeysOf(c) == {c[i].key : i \in 1..Len(c)}

Has(c, k) == k \in KeysOf(c)

EntryOf(c, k) == c[CHOOSE i \in 1..Len(c) : c[i].key = k]

\* del self._cache[key] for every key of S
RemoveKeys(c, S) == SelectSeq(c, LAMBDA e : e.key \notin S)

\* a mutant: an entry counts as expired at its expires_at already
IsExpiredInclusive(t, e) == t >= e

\* now > entry.expires_at
IsExpired(t, e) == t > e

\* [k for k, v in self._cache.items() if now > v.expires_at]
ExpiredKeys(c, t) ==
    {c[i].key : i \in {j \in 1..Len(c) : IsExpired(t, c[j].expires_at)}}

\* min(self._cache.keys(), key=lambda k: self._cache[k].last_accessed):
\* the first key, in dict order, of minimal last_accessed
LruKey(c) ==
    c[CHOOSE i \in 1..Len(c) :
        \A j \in 1..Len(c) :
            /\ c[i].last_accessed <= c[j].last_accessed
            /\ (c[j].last_accessed = c[i].last_accessed => i <= j)].key

\* a mutant: the loop test written > instead of >=
RECURSIVE EvictLoopOffByOne(_)
EvictLoopOffByOne(c) ==
    IF Len(c) > MaxSize /\ Len(c) > 0
    THEN EvictLoopOffByOne(RemoveKeys(c, {LruKey(c)}))
    ELSE c

\* while len(self._cache) >= self._max_size: evict the LRU entry
RECURSIVE EvictLoop(_)
EvictLoop(c) ==
    IF Len(c) >= MaxSize /\ Len(c) > 0
    THEN EvictLoop(RemoveKeys(c, {LruKey(c)}))
    ELSE c

\* a mutant: the LRU loop runs before the expired entries are swept
EvictIfNeededLruFirst(c, t) ==
    IF MaxSize <= 0 THEN c
    ELSE RemoveKeys(EvictLoop(c), ExpiredKeys(c, t))

\* _evict_if_needed at clock reading t: sweep expired entries, then evict
EvictIfNeeded(c, t) ==
    IF MaxSize <= 0 THEN c
    ELSE EvictLoop(RemoveKeys(c, ExpiredKeys(c, t)))

\* self._cache[key] = CacheEntry(...): a present key keeps its dict position
Store(c, e) ==
    IF Has(c, e.key)
    THEN [i \in 1..Len(c) |-> IF c[i].key = e.key THEN e ELSE c[i]]
    ELSE Append(c, e)

\* ttl = timedelta(seconds=ttl_seconds) if ttl_seconds else self._default_ttl
TtlOf(ttl_seconds) == IF ttl_seconds # 0 THEN ttl_seconds ELSE DefaultTtl

Max(a, b) == IF a >= b THEN a ELSE b

(***************************************************************************)
(* PersistentTTLCache: serialization helpers                               *)
(***************************************************************************)
\* json.dumps(value, default=str) / json.loads(data_json)
JsonDumps(v) == <<"json", v>>
JsonLoads(s) == s[2]

\* datetime.isoformat() / datetime.fromisoformat(); ISO strings of naive
\* datetimes compare as the datetimes do
IsoFormat(t) == <<"iso", t>>
FromIsoFormat(s) == s[2]
IsoLess(a, b) == a[2] < b[2]

\* a row of service_cache; created_at is written and never read, so it is left out
Row(d, e) == [data_json |-> d, expires_at |-> e]

\* INSERT OR REPLACE INTO service_cache
Upsert(tbl, k, r) ==
    [x \in (DOMAIN tbl) \cup {k} |-> IF x = k THEN r ELSE tbl[x]]

\* DELETE FROM service_cache WHERE cache_key in S
DeleteRows(tbl, S) == [x \in (DOMAIN tbl) \ S |-> tbl[x]]

EmptyTable == [x \in {} |-> Row(JsonDumps("a"), IsoFormat(0))]

\* a payload json.loads rejects (JSONDecodeError)
Corrupt == <<"corrupt">>
Decodable(s) == s[1] = "json"

(***************************************************************************)
(* State after construction                                                *)
(***************************************************************************)
NoPending == [op |-> "none", now |-> 0]
NoEvict == [swept |-> 0, lru |-> 0]
NoProbe == [key |-> None, at |-> 0, expires_at |-> 0, stored |-> None]
Probe(k, t, e, v) == [key |-> k, at |-> t, expires_at |-> e, stored |-> v]

CacheInit ==
    /\ variant \in {"memory", "durable"}
    /\ now = 0
    /\ cache = <<>>
    /\ service_cache = EmptyTable
    /\ hits = 0
    /\ misses = 0
    /\ pending = NoPending
    /\ ret = None
    /\ evict = NoEvict
    /\ probe = NoProbe
    /\ gone = {}
    /\ touched = [k \in Keys |-> 0]

\* time passes
Tick ==
    /\ now < MaxTime
    /\ now' = now + 1
    /\ UNCHANGED <<notCache, variant, cache, service_cache, hits, misses, pending,
                   ret, evict, probe, gone, touched>>

(***************************************************************************)
(* TTLCache operations.  get, delete and clear run wholly under _lock;     *)
(* set and cleanup_expired read the clock first and take _lock after, so   *)
(* calls of other threads may complete in between.                         *)
(***************************************************************************)
Get(k) ==
    /\ variant = "memory"
    /\ hits + misses < MaxRequests
    /\ IF ~Has(cache, k)
       THEN /\ misses' = misses + 1
            /\ ret' = None
            /\ probe' = NoProbe
            /\ UNCHANGED <<cache, hits, touched, gone>>
       ELSE IF IsExpired(now, EntryOf(cache, k).expires_at)
       THEN /\ cache' = RemoveKeys(cache, {k})
            /\ misses' = misses + 1
            /\ ret' = None
            /\ touched' = [touched EXCEPT ![k] = 0]
            /\ probe' = Probe(k, now, EntryOf(cache, k).expires_at, EntryOf(cache, k).value)
            /\ gone' = gone \cup {k}
            /\ UNCHANGED hits
       ELSE /\ cache' = Store(cache, [EntryOf(cache, k) EXCEPT !.last_accessed = now])
            /\ hits' = hits + 1
            /\ ret' = EntryOf(cache, k).value
            /\ touched' = [touched EXCEPT ![k] = now]
            /\ probe' = Probe(k, now, EntryOf(cache, k).expires_at, EntryOf(cache, k).value)
            /\ UNCHANGED <<misses, gone>>
    /\ evict' = NoEvict
    /\ UNCHANGED <<notCache, variant, now, service_cache, pending>>

\* set, line 81: now = datetime.now(), read before the lock is taken
SetBegin ==
    /\ variant = "memory"
    /\ pending.op = "none"
    /\ pending' = [op |-> "set", now |-> now]
    /\ UNCHANGED <<notCache, variant, now, cache, service_cache, hits, misses,
                   ret, evict, probe, gone, touched>>

\* set(key, value, ttl_seconds), lines 80-93: expires_at = now + ttl with the
\* clock reading of line 81; lines 84-93 run under the lock, where
\* _evict_if_needed reads the clock again
SetCommit(key, value, ttl_seconds) ==
    LET isNew == ~Has(cache, key)
        swept == IF MaxSize > 0 /\ isNew THEN EvictIfNeeded(cache, now) ELSE cache
        removed == KeysOf(cache) \ KeysOf(swept)
        expired == IF MaxSize > 0 /\ isNew THEN ExpiredKeys(cache, now) ELSE {}
    IN  /\ variant = "memory"
        /\ pending.op = "set"
        /\ cache' = Store(swept,
               CacheEntry(key, value, pending.now + TtlOf(ttl_seconds), pending.now))
        /\ pending' = NoPending
        /\ ret' = None
        /\ evict' = [swept |-> Cardinality(expired),
                     lru |-> Cardinality(removed \ expired)]
        /\ touched' = [k \in Keys |->
               IF k = key THEN (IF isNew THEN pending.now ELSE Max(touched[k], pending.now))
               ELSE IF k \in removed THEN 0 ELSE touched[k]]
        /\ probe' = NoProbe
        /\ gone' = gone \ {key}
        /\ UNCHANGED <<notCache, variant, now, service_cache, hits, misses>>

Delete(k) ==
    /\ variant = "memory"
    /\ Has(cache, k)
    /\ cache' = RemoveKeys(cache, {k})
    /\ ret' = None
    /\ touched' = [touched EXCEPT ![k] = 0]
    /\ evict' = NoEvict
    /\ probe' = NoProbe
    /\ UNCHANGED <<notCache, variant, now, service_cache, hits, misses, pending, gone>>

Clear ==
    /\ variant = "memory"
    /\ cache # <<>> \/ hits + misses > 0
    /\ cache' = <<>>
    /\ hits' = 0
    /\ misses' = 0
    /\ ret' = None
    /\ touched' = [k \in Keys |-> 0]
    /\ evict' = NoEvict
    /\ probe' = NoProbe
    /\ UNCHANGED <<notCache, variant, now, service_cache, pending, gone>>

\* cleanup_expired, line 128: now = datetime.now(), read before the lock is taken
CleanupBegin ==
    /\ variant = "memory"
    /\ pending.op = "none"
    /\ cache # <<>>
    /\ pending' = [op |-> "cleanup", now |-> now]
    /\ UNCHANGED <<notCache, variant, now, cache, service_cache, hits, misses,
                   ret, evict, probe, gone, touched>>

\* cleanup_expired, lines 130-135, under the lock
CleanupCommit ==
    LET expired_keys == ExpiredKeys(cache, pending.now)
    IN  /\ variant = "memory"
        /\ pending.op = "cleanup"
        /\ cache' = RemoveKeys(cache, expired_keys)
        /\ pending' = NoPending
        /\ ret' = Cardinality(expired_keys)
        /\ touched' = [k \in Keys |-> IF k \in expired_keys THEN 0 ELSE touched[k]]
        /\ evict' = NoEvict
        /\ probe' = NoProbe
        /\ UNCHANGED <<notCache, variant, now, service_cache, hits, misses, gone>>

MemoryNext ==
    \/ \E k \in Keys : Get(k)
    \/ SetBegin
    \/ \E k \in Keys, v \in Values, s \in TtlArgs : SetCommit(k, v, s)
    \/ \E k \in Keys : Delete(k)
    \/ Clear
    \/ CleanupBegin
    \/ CleanupCommit

(***************************************************************************)
(* PersistentTTLCache operations, each store access under the module-wide  *)
(* _persistent_cache_lock; set and cleanup_expired read the clock before.  *)
(***************************************************************************)
PersistentGet(k) ==
    /\ variant = "durable"
    /\ hits + misses < MaxRequests
    /\ IF k \notin DOMAIN service_cache
       THEN /\ misses' = misses + 1
            /\ ret' = None
            /\ probe' = NoProbe
            /\ UNCHANGED <<service_cache, hits, gone>>
       ELSE IF IsExpired(now, FromIsoFormat(service_cache[k].expires_at))
       THEN /\ service_cache' = DeleteRows(service_cache, {k})
            /\ misses' = misses + 1
            /\ ret' = None
            /\ probe' = Probe(k, now, service_cache[k].expires_at, service_cache[k].data_json)
            /\ gone' = gone \cup {k}
            /\ UNCHANGED hits
       ELSE /\ hits' = hits + 1
            /\ probe' = Probe(k, now, service_cache[k].expires_at, service_cache[k].data_json)
            /\ UNCHANGED <<misses, gone>>
            /\ IF Decodable(service_cache[k].data_json)
               THEN /\ ret' = JsonLoads(service_cache[k].data_json)
                    /\ UNCHANGED service_cache
               ELSE /\ service_cache' = DeleteRows(service_cache, {k})
                    /\ ret' = None
    /\ UNCHANGED <<notCache, variant, now, cache, pending, evict, touched>>

\* set, line 231: now = datetime.now(), read before the lock is taken
PersistentSetBegin ==
    /\ variant = "durable"
    /\ pending.op = "none"
    /\ pending' = [op |-> "set", now |-> now]
    /\ UNCHANGED <<notCache, variant, now, cache, service_cache, hits, misses,
                   ret, evict, probe, gone, touched>>

\* set, lines 230-249: INSERT OR REPLACE under the lock
PersistentSetCommit(key, value, ttl_seconds) ==
    /\ variant = "durable"
    /\ pending.op = "set"
    /\ service_cache' = Upsert(service_cache, key,
           Row(JsonDumps(value), IsoFormat(pending.now + TtlOf(ttl_seconds))))
    /\ pending' = NoPending
    /\ ret' = None
    /\ probe' = NoProbe
    /\ gone' = gone \ {key}
    /\ UNCHANGED <<notCache, variant, now, cache, hits, misses, evict, touched>>

PersistentDelete(k) ==
    /\ variant = "durable"
    /\ k \in DOMAIN service_cache
    /\ service_cache' = DeleteRows(service_cache, {k})
    /\ ret' = None
    /\ probe' = NoProbe
    /\ UNCHANGED <<notCache, variant, now, cache, hits, misses, pending, evict, gone, touched>>

PersistentClear ==
    /\ variant = "durable"
    /\ DOMAIN service_cache # {} \/ hits + misses > 0
    /\ service_cache' = EmptyTable
    /\ hits' = 0
    /\ misses' = 0
    /\ ret' = None
    /\ probe' = NoProbe
    /\ UNCHANGED <<notCache, variant, now, cache, pending, evict, gone, touched>>

\* cleanup_expired, line 277: now = datetime.now().isoformat()
PersistentCleanupBegin ==
    /\ variant = "durable"
    /\ pending.op = "none"
    /\ DOMAIN service_cache # {}
    /\ pending' = [op |-> "cleanup", now |-> now]
    /\ UNCHANGED <<notCache, variant, now, cache, service_cache, hits, misses,
                   ret, evict, probe, gone, touched>>

\* cleanup_expired, lines 278-283: DELETE ... WHERE expires_at < ?
PersistentCleanupCommit ==
    LET expired == {k \in DOMAIN service_cache :
                    IsoLess(service_cache[k].expires_at, IsoFormat(pending.now))}
    IN  /\ variant = "durable"
        /\ pending.op = "cleanup"
        /\ service_cache' = DeleteRows(service_cache, expired)
        /\ pending' = NoPending
        /\ ret' = Cardinality(expired)
        /\ probe' = NoProbe
        /\ UNCHANGED <<notCache, variant, now, cache, hits, misses, evict, gone, touched>>

\* the store holds a payload that json.loads rejects (the case lines 221-224 handle)
CorruptRow(k) ==
    /\ variant = "durable"
    /\ k \in DOMAIN service_cache
    /\ Decodable(service_cache[k].data_json)
    /\ service_cache' = [service_cache EXCEPT ![k].data_json = Corrupt]
    /\ probe' = NoProbe
    /\ UNCHANGED <<notCache, variant, now, cache, hits, misses, pending, ret, evict, gone, touched>>

DurableNext ==
    \/ \E k \in PersistentKeys : PersistentGet(k)
    \/ PersistentSetBegin
    \/ \E k \in PersistentKeys, v \in Values, s \in TtlArgs : PersistentSetCommit(k, v, s)
    \/ \E k \in PersistentKeys : PersistentDelete(k)
    \/ PersistentClear
    \/ PersistentCleanupBegin
    \/ PersistentCleanupCommit
    \/ \E k \in PersistentKeys : CorruptRow(k)

CacheNext == Tick \/ MemoryNext \/ DurableNext

(***************************************************************************)
(* cache_refresh_status: one global record, every access under             *)
(* _status_lock, so each function is one step.                             *)
(***************************************************************************)
\* start_refresh calls made while one refresh is marked as running
MaxStarts == 2

\* a datetime field: None, or the clock reading stored
NoTime == <<>>
At(t) == <<t>>

\* CacheRefreshStatus(), lines 17-28, and reset(), lines 47-60
IdleStatus ==
    [in_progress |-> FALSE, status |-> "idle", message |-> "", percent |-> 0,
     phase |-> "", provider |-> "", current |-> 0, total |-> 0,
     started_at |-> NoTime, completed_at |-> NoTime, error |-> None,
     result |-> "{}"]

\* a mutant: the record is rewritten but the flag is left unset
StartedStatusFlagUnset(t) ==
    [IdleStatus EXCEPT !.status = "starting",
                       !.message = "Initializing cache refresh...",
                       !.percent = 0, !.started_at = At(t)]

\* start_refresh, lines 88-93: the record a successful call leaves
StartedStatus(t) ==
    [IdleStatus EXCEPT !.in_progress = TRUE, !.status = "starting",
                       !.message = "Initializing cache refresh...",
                       !.percent = 0, !.started_at = At(t)]

\* the keyword arguments callers pass to update_refresh_status; an argument
\* left out is None
UpdateArgs ==
    { [status |-> "discovering", message |-> "Discovering", percent |-> 50,
       phase |-> "discovery", provider |-> "espn", current |-> 1, total |-> 2],
      [percent |-> 95, current |-> 2] }

\* if x is not None: _status.f = x
Given(a, f, old) == IF f \in DOMAIN a THEN a[f] ELSE old

\* update_refresh_status, lines 107-121
UpdatedStatus(r, a) ==
    [r EXCEPT !.status = Given(a, "status", @), !.message = Given(a, "message", @),
              !.percent = Given(a, "percent", @), !.phase = Given(a, "phase", @),
              !.provider = Given(a, "provider", @),
              !.current = Given(a, "current", @), !.total = Given(a, "total", @)]

\* complete_refresh, lines 126-132
CompletedStatus(r, t, res) ==
    [r EXCEPT !.in_progress = FALSE, !.status = "complete",
              !.message = "Cache refresh complete", !.percent = 100,
              !.completed_at = At(t), !.result = res]

\* f"Error: {error}"
ErrorMessage(err) == IF err = "timeout" THEN "Error: timeout" ELSE "Error: unknown"

\* fail_refresh, lines 137-142
FailedStatus(r, t, err) ==
    [r EXCEPT !.in_progress = FALSE, !.status = "error",
              !.message = ErrorMessage(err), !.error = err,
              !.completed_at = At(t)]

RefreshInit ==
    /\ refresh = IdleStatus
    /\ refreshRet = "none"
    /\ refreshPrev = IdleStatus
    /\ refreshCalls = 0
    /\ refreshWins = 0

notRefresh == <<variant, cache, service_cache, hits, misses, pending,
                ret, evict, probe, gone, touched, genVars, orchVars,
                storeVars, matchVars, reconVars,
    moreVars>>

RefreshTick ==
    /\ now < MaxTime
    /\ now' = now + 1
    /\ UNCHANGED <<refreshVars, notRefresh>>

\* start_refresh, lines 80-94
StartRefresh ==
    /\ refreshCalls < MaxStarts
    /\ refreshCalls' = refreshCalls + 1
    /\ IF refresh.in_progress
       THEN /\ refreshRet' = "False"
            /\ refreshPrev' = refresh
            /\ UNCHANGED <<refresh, refreshWins>>
       ELSE /\ refresh' = StartedStatus(now)
            /\ refreshRet' = "True"
            /\ refreshPrev' = IdleStatus
            /\ refreshWins' = refreshWins + 1
    /\ UNCHANGED <<now, notRefresh>>

\* update_refresh_status, lines 97-121
UpdateRefreshStatus(a) ==
    /\ refresh' = UpdatedStatus(refresh, a)
    /\ refreshRet' = "none"
    /\ refreshPrev' = IdleStatus
    /\ UNCHANGED <<refreshCalls, refreshWins, now, notRefresh>>

\* complete_refresh, lines 124-132
CompleteRefresh(res) ==
    /\ refresh' = CompletedStatus(refresh, now, res)
    /\ refreshRet' = "none"
    /\ refreshCalls' = 0
    /\ refreshWins' = 0
    /\ refreshPrev' = IdleStatus
    /\ UNCHANGED <<now, notRefresh>>

\* fail_refresh, lines 135-142
FailRefresh(err) ==
    /\ refresh' = FailedStatus(refresh, now, err)
    /\ refreshRet' = "none"
    /\ refreshCalls' = 0
    /\ refreshWins' = 0
    /\ refreshPrev' = IdleStatus
    /\ UNCHANGED <<now, notRefresh>>

RefreshNext ==
    \/ RefreshTick
    \/ StartRefresh
    \/ \E a \in UpdateArgs : UpdateRefreshStatus(a)
    \/ CompleteRefresh("stats")
    \/ FailRefresh("timeout")

(***************************************************************************)
(* EPG generation: the synchronous endpoint generate_epg and the streamed  *)
(* one, generate_epg_stream, whose generator starts a worker thread that   *)
(* posts status snapshots on a queue.  The status module                   *)
(* (teamarr.api.generation_status) follows cache_refresh_status: one       *)
(* record, every function under a lock.                                    *)
(***************************************************************************)
\* the stream requests made
Streams == {"s1", "s2"}
\* progress callbacks one run makes
MaxProgress == 1
\* generate_epg requests in flight
MaxSync == 1

IdleGeneration ==
    [in_progress |-> FALSE, status |-> "idle", percent |-> 0, error |-> None]

\* start_generation: the record a successful call leaves
StartedGeneration ==
    [IdleGeneration EXCEPT !.in_progress = TRUE, !.status = "starting"]

\* update_status(status="progress", percent=..., ...), lines 175-183
ProgressGeneration(g, p) == [g EXCEPT !.status = "progress", !.percent = p]

\* complete_generation({...}), lines 194-201
CompletedGeneration(g) ==
    [g EXCEPT !.in_progress = FALSE, !.status = "complete", !.percent = 100]

\* fail_generation(error), lines 203, 208
FailedGeneration(g, err) ==
    [g EXCEPT !.in_progress = FALSE, !.status = "error", !.error = err]

\* {"_done": True}, line 212
Sentinel == [done |-> TRUE]
\* data.get("_done"), line 223
IsSentinel(data) == "done" \in DOMAIN data

\* queue.Queue: put appends, get takes the oldest item
QueuePut(q, x) == Append(q, x)

\* how run_full_generation can end: result.success, not result.success, raise
Outcomes == {"success", "failure", "raise"}

\* the run_full_generation calls executing now
RunsInFlight == syncRuns + Cardinality({s \in Streams : worker[s] = "running"})

GenInit ==
    /\ gen = IdleGeneration
    /\ syncRuns = 0
    /\ phase = [s \in Streams |-> "none"]
    /\ worker = [s \in Streams |-> "none"]
    /\ queue = [s \in Streams |-> <<>>]
    /\ progress = [s \in Streams |-> 0]
    /\ emitted = [s \in Streams |-> <<>>]
    /\ finals = [s \in Streams |-> 0]
    /\ enq = [s \in Streams |-> <<>>]

notGen == <<cacheVars, refreshVars, orchVars, storeVars, matchVars, reconVars,
    moreVars>>

\* generate_epg, lines 77-81: run_full_generation is called right away
SyncBegin ==
    /\ syncRuns < MaxSync
    /\ syncRuns' = syncRuns + 1
    /\ UNCHANGED <<gen, phase, worker, queue, progress, emitted,
                   finals, enq, notGen>>

\* generate_epg, lines 83-104: the run returned (a response or an HTTP 500)
SyncEnd ==
    /\ syncRuns > 0
    /\ syncRuns' = syncRuns - 1
    /\ UNCHANGED <<gen, phase, worker, queue, progress, emitted,
                   finals, enq, notGen>>

\* generate_epg_stream, lines 143-147: if is_in_progress(): error response
StreamCheck(s) ==
    /\ phase[s] = "none"
    /\ phase' = [phase EXCEPT ![s] = IF gen.in_progress THEN "rejected" ELSE "checked"]
    /\ UNCHANGED <<gen, syncRuns, worker, queue, progress, emitted,
                   finals, enq, notGen>>

\* generate_epg_stream, lines 150-157 and 238-246: start_generation(), then the
\* StreamingResponse is returned with the generator not yet started
StreamStart(s) ==
    /\ phase[s] = "checked"
    /\ IF gen.in_progress
       THEN /\ phase' = [phase EXCEPT ![s] = "rejected"]
            /\ UNCHANGED gen
       ELSE /\ phase' = [phase EXCEPT ![s] = "accepted"]
            /\ gen' = StartedGeneration
    /\ UNCHANGED <<syncRuns, worker, queue, progress, emitted,
                   finals, enq, notGen>>

\* generate(), lines 215-216: the response is iterated, the thread is started
ClientIterate(s) ==
    /\ phase[s] = "accepted"
    /\ phase' = [phase EXCEPT ![s] = "streaming"]
    /\ worker' = [worker EXCEPT ![s] = "running"]
    /\ UNCHANGED <<gen, syncRuns, queue, progress, emitted,
                   finals, enq, notGen>>

\* the client goes away: the response is dropped, or the generator is closed
\* at the yield it is suspended in
ClientDisconnect(s) ==
    /\ phase[s] \in {"accepted", "streaming"}
    /\ phase' = [phase EXCEPT ![s] = "closed"]
    /\ UNCHANGED <<gen, syncRuns, worker, queue, progress, emitted,
                   finals, enq, notGen>>

\* progress_callback, lines 174-184: update_status(...); put(get_status())
WorkerProgress(s) ==
    /\ worker[s] = "running"
    /\ progress[s] < MaxProgress
    /\ progress' = [progress EXCEPT ![s] = @ + 1]
    /\ gen' = ProgressGeneration(gen, progress[s] + 1)
    /\ queue' = [queue EXCEPT ![s] = QueuePut(@, gen')]
    /\ enq' = [enq EXCEPT ![s] = Append(@, gen')]
    /\ UNCHANGED <<syncRuns, phase, worker, emitted, finals, notGen>>

\* run_generation, lines 187-203 and 207-208: the run ends and the status is
\* completed or failed
WorkerFinish(s, o) ==
    /\ worker[s] = "running"
    /\ worker' = [worker EXCEPT ![s] = "finished"]
    /\ gen' = IF o = "success" THEN CompletedGeneration(gen)
              ELSE FailedGeneration(gen, o)
    /\ UNCHANGED <<syncRuns, phase, queue, progress, emitted, finals,
                   enq, notGen>>

\* run_generation, lines 205 and 209: progress_queue.put(get_status())
WorkerPutStatus(s) ==
    /\ worker[s] = "finished"
    /\ worker' = [worker EXCEPT ![s] = "posted"]
    /\ queue' = [queue EXCEPT ![s] = QueuePut(@, gen)]
    /\ enq' = [enq EXCEPT ![s] = Append(@, gen)]
    /\ UNCHANGED <<gen, syncRuns, phase, progress, emitted, finals, notGen>>

\* a mutant: no finally clause, the thread ends without the sentinel
WorkerEndsSilently(s) ==
    /\ worker[s] = "posted"
    /\ worker' = [worker EXCEPT ![s] = "ended"]
    /\ UNCHANGED <<gen, syncRuns, phase, queue, progress, emitted,
                   finals, enq, notGen>>

\* run_generation, lines 211-212: finally: progress_queue.put({"_done": True})
WorkerSentinel(s) ==
    /\ worker[s] = "posted"
    /\ worker' = [worker EXCEPT ![s] = "ended"]
    /\ queue' = [queue EXCEPT ![s] = QueuePut(@, Sentinel)]
    /\ UNCHANGED <<gen, syncRuns, phase, progress, emitted, finals,
                   enq, notGen>>

\* a mutant: the loop also ends, without a yield, on a terminal status
ConsumerGetStopsOnTerminal(s) ==
    /\ phase[s] = "streaming"
    /\ queue[s] # <<>>
    /\ queue' = [queue EXCEPT ![s] = Tail(@)]
    /\ IF IsSentinel(Head(queue[s])) \/ ~Head(queue[s]).in_progress
       THEN /\ phase' = [phase EXCEPT ![s] = "joining"]
            /\ UNCHANGED emitted
       ELSE /\ emitted' = [emitted EXCEPT ![s] = Append(@, Head(queue[s]))]
            /\ UNCHANGED phase
    /\ UNCHANGED <<gen, syncRuns, worker, progress, finals, enq, notGen>>

\* generate(), lines 221-226: an item was there within the 0.5 s
ConsumerGet(s) ==
    /\ phase[s] = "streaming"
    /\ queue[s] # <<>>
    /\ queue' = [queue EXCEPT ![s] = Tail(@)]
    /\ IF IsSentinel(Head(queue[s]))
       THEN /\ phase' = [phase EXCEPT ![s] = "joining"]
            /\ UNCHANGED emitted
       ELSE /\ emitted' = [emitted EXCEPT ![s] = Append(@, Head(queue[s]))]
            /\ UNCHANGED phase
    /\ UNCHANGED <<gen, syncRuns, worker, progress, finals, enq, notGen>>

\* generate(), lines 228-230: queue.Empty after 0.5 s, a heartbeat comment is
\* yielded and the loop goes on; nothing else changes
ConsumerHeartbeat(s) ==
    /\ phase[s] = "streaming"
    /\ queue[s] = <<>>
    /\ UNCHANGED <<gen, syncRuns, phase, worker, queue, progress, emitted,
                   finals, enq, notGen>>

\* generate(), line 233: generation_thread.join(timeout=5) returns, the
\* thread ended or not
ConsumerJoin(s) ==
    /\ phase[s] = "joining"
    /\ phase' = [phase EXCEPT ![s] = "joined"]
    /\ UNCHANGED <<gen, syncRuns, worker, queue, progress, emitted,
                   finals, enq, notGen>>

\* generate(), line 236: yield the status read now
ConsumerFinal(s) ==
    /\ phase[s] = "joined"
    /\ phase' = [phase EXCEPT ![s] = "done"]
    /\ emitted' = [emitted EXCEPT ![s] = Append(@, gen)]
    /\ finals' = [finals EXCEPT ![s] = @ + 1]
    /\ UNCHANGED <<gen, syncRuns, worker, queue, progress, enq, notGen>>

GenNext ==
    \/ SyncBegin
    \/ SyncEnd
    \/ \E s \in Streams :
          \/ StreamCheck(s)
          \/ StreamStart(s)
          \/ ClientIterate(s)
          \/ ClientDisconnect(s)
          \/ WorkerProgress(s)
          \/ \E o \in Outcomes : WorkerFinish(s, o)
          \/ WorkerPutStatus(s)
          \/ WorkerSentinel(s)
          \/ ConsumerGet(s)
          \/ ConsumerHeartbeat(s)
          \/ ConsumerJoin(s)
          \/ ConsumerFinal(s)

(***************************************************************************)
(* EventGroupProcessor.process_group: fetch streams, fetch events, match,  *)
(* build the matched list, apply the channel lifecycle, aggregate a        *)
(* ProcessingResult.  A run is synchronous: one step.  The matcher         *)
(* (MultiLeagueMatcher) and the lifecycle service                          *)
(* (ChannelLifecycleService) follow their specification.                   *)
(***************************************************************************)
\* days 0..MaxDay
MaxDay == 1
\* target_date=None
NoDate == -1
\* which matched items (by position) have their external call fail
FailSets == {{}, {1}, {1, 2}}

GroupId == 1
MissingGroupId == 99
\* group.leagues
Leagues == <<"nfl", "nba">>

\* the provider's schedule
Events ==
    { [id |-> "e1", league |-> "nfl", day |-> 1],
      [id |-> "e2", league |-> "nba", day |-> 1] }

EventIds == {e.id : e \in Events}
EventOf(id) == CHOOSE e \in Events : e.id = id

\* the event a stream name is about, for the matcher
Mentions(name) ==
    CASE name = "ESPN Feed 1" -> "e1"
      [] name = "ESPN Feed 2" -> "e1"
      [] name = "NBA Live" -> "e2"
      [] OTHER -> None

Stream(i, n) == [id |-> i, name |-> n]

\* what list_streams returns
StreamLists ==
    { <<>>,
      <<Stream(1, "ESPN Feed 1"), Stream(2, "ESPN Feed 2")>>,
      <<Stream(1, "ESPN Feed 1"), Stream(3, "ESPN Feed 1")>>,
      <<Stream(4, "News"), Stream(5, "NBA Live"), Stream(1, "ESPN Feed 1")>> }

\* the stream source of a run: is a client configured, does the call raise
StreamSources ==
    {[client |-> TRUE, raises |-> FALSE, streams |-> l] : l \in StreamLists}
    \cup {[client |-> FALSE, raises |-> FALSE, streams |-> <<>>],
          [client |-> TRUE, raises |-> TRUE, streams |-> <<>>]}

\* a mutant: the day after is taken for the default
TargetDateTomorrow(target_date, day) ==
    IF target_date # NoDate THEN target_date ELSE day + 1

\* target_date = target_date or date.today(), lines 180 and 206
TargetDate(target_date, day) ==
    IF target_date # NoDate THEN target_date ELSE day

\* _fetch_streams, lines 282-319
FetchStreams(src) ==
    IF ~src.client THEN <<>>
    ELSE IF src.raises THEN <<>>
    ELSE src.streams

\* self._service.get_events(league, target_date) for a league that answers
GetEvents(league, date) == {e \in Events : e.league = league /\ e.day = date}

\* _fetch_events, lines 321-332: a league whose fetch raises adds nothing
FetchEvents(leagues, date, down) ==
    UNION {GetEvents(leagues[i], date) :
             i \in {j \in 1..Len(leagues) : leagues[j] \notin down}}

\* MultiLeagueMatcher.match_all(stream_names, target_date): one result per
\* name, in order, matched against the leagues' events on target_date
MatchOne(name, leagues, date, down) ==
    LET hit == {e \in FetchEvents(leagues, date, down) : e.id = Mentions(name)}
    IN  [stream_name |-> name,
         matched |-> hit # {},
         included |-> hit # {},
         event |-> IF hit # {} THEN Mentions(name) ELSE None]

MatchAll(names, leagues, date, down) ==
    [i \in 1..Len(names) |-> MatchOne(names[i], leagues, date, down)]

\* stream_names = [s["name"] for s in streams], line 347
StreamNames(streams) == [i \in 1..Len(streams) |-> streams[i].name]

NoStream == Stream(0, "")

\* stream_lookup = {s["name"]: s for s in streams}; stream_lookup.get(name):
\* a later stream replaces an earlier one of the same name
StreamLookup(streams, name) ==
    LET idx == {i \in 1..Len(streams) : streams[i].name = name}
    IN  IF idx = {} THEN NoStream
        ELSE streams[CHOOSE i \in idx : \A j \in idx : j <= i]

\* _build_matched_stream_list, lines 350-372
BuildMatchedStreamList(streams, results) ==
    LET kept == SelectSeq(results, LAMBDA r :
                    /\ r.matched /\ r.included /\ r.event # None
                    /\ StreamLookup(streams, r.stream_name) # NoStream)
    IN  [i \in 1..Len(kept) |->
            [stream |-> StreamLookup(streams, kept[i].stream_name),
             event |-> kept[i].event]]

\* the days between creation and the event's start that a create_timing allows
Lead(create_timing) == IF create_timing = "day_before" THEN 1 ELSE 0

\* the create_timing condition, evaluated against the event's start and today
TimingSatisfied(create_timing, event, day) ==
    /\ EventOf(event).day - Lead(create_timing) <= day
    /\ day <= EventOf(event).day

ManagedChannel(g, e, s, d) ==
    [group |-> g, event |-> e, stream |-> s, streams |-> {s}, created_at |-> d]

\* StreamProcessResult, with the channel records and the external calls made
NoOutcome(chans) ==
    [channels |-> chans, created |-> <<>>, existing |-> <<>>, skipped |-> <<>>,
     errors |-> <<>>, calls |-> <<>>]

\* the channels of the group that a matched item falls on under the policy
ChannelsFor(chans, cfg, item) ==
    {c \in chans :
        /\ c.group = cfg.id
        /\ c.event = item.event
        /\ cfg.duplicate_event_handling = "separate" => c.stream = item.stream.id}

\* one matched item: skip, or find its channel, or create one; a failed
\* external call is recorded and not repeated
LifecycleItem(acc, item, i, cfg, create_timing, day, fail) ==
    LET found == ChannelsFor(acc.channels, cfg, item)
        c == CHOOSE x \in found : TRUE
    IN  IF ~TimingSatisfied(create_timing, item.event, day)
        THEN [acc EXCEPT !.skipped = Append(@, i)]
        ELSE IF found = {}
        THEN IF i \in fail
             THEN [acc EXCEPT !.errors = Append(@, i), !.calls = Append(@, i)]
             ELSE [acc EXCEPT
                     !.channels = @ \cup {ManagedChannel(cfg.id, item.event,
                                                         item.stream.id, day)},
                     !.created = Append(@, i), !.calls = Append(@, i)]
        ELSE IF item.stream.id \in c.streams
        THEN [acc EXCEPT !.existing = Append(@, i)]
        ELSE IF cfg.duplicate_event_handling = "ignore"
        THEN [acc EXCEPT !.skipped = Append(@, i)]
        ELSE IF i \in fail
        THEN [acc EXCEPT !.errors = Append(@, i), !.calls = Append(@, i)]
        ELSE [acc EXCEPT
                !.channels = (@ \ {c}) \cup {[c EXCEPT !.streams = @ \cup {item.stream.id}]},
                !.existing = Append(@, i), !.calls = Append(@, i)]

\* process_matched_streams(matched_streams, group_config, template)
RECURSIVE ProcessMatchedStreams(_, _, _, _, _, _, _)
ProcessMatchedStreams(matched, i, acc, cfg, create_timing, day, fail) ==
    IF i > Len(matched) THEN acc
    ELSE ProcessMatchedStreams(matched, i + 1,
             LifecycleItem(acc, matched[i], i, cfg, create_timing, day, fail),
             cfg, create_timing, day, fail)

\* group_config, lines 387-394 (the fields the lifecycle policy reads)
GroupConfig(g) ==
    [id |-> g.id, duplicate_event_handling |-> g.duplicate_event_handling]

\* _process_channels, lines 374-401
ProcessChannels(matched, g, chans, day, fail) ==
    ProcessMatchedStreams(matched, 1, NoOutcome(chans), GroupConfig(g),
                          g.create_timing, day, fail)

\* ProcessingResult(group_id=..., group_name=...), lines 37-62
NewResult(gid) ==
    [group_id |-> gid, completed |-> FALSE,
     streams_fetched |-> 0, streams_matched |-> 0, streams_unmatched |-> 0,
     channels_created |-> 0, channels_existing |-> 0, channels_skipped |-> 0,
     channel_errors |-> 0, errors |-> <<>>]

Error(text, item) == [text |-> text, item |-> item]

\* a mutant: every lifecycle error is counted, only the first is listed
AggregateFirstError(r, lr) ==
    [r EXCEPT !.channels_created = Len(lr.created),
              !.channels_existing = Len(lr.existing),
              !.channels_skipped = Len(lr.skipped),
              !.channel_errors = Len(lr.errors),
              !.errors = @ \o [i \in 1..(IF lr.errors = <<>> THEN 0 ELSE 1) |->
                                 Error("Channel error", lr.errors[i])]]

\* _process_group_internal, lines 264-270
Aggregate(r, lr) ==
    [r EXCEPT !.channels_created = Len(lr.created),
              !.channels_existing = Len(lr.existing),
              !.channels_skipped = Len(lr.skipped),
              !.channel_errors = Len(lr.errors),
              !.errors = @ \o [i \in 1..Len(lr.errors) |->
                                 Error("Channel error", lr.errors[i])]]

\* matched_count / unmatched_count of a BatchMatchResult
MatchedCount(results) == Len(SelectSeq(results, LAMBDA r : r.matched))
UnmatchedCount(results) == Len(SelectSeq(results, LAMBDA r : ~r.matched))

NoRun ==
    [made |-> FALSE, day |-> 0, target |-> NoDate, down |-> {}, fail |-> {},
     fetched |-> <<>>, results |-> <<>>, matched |-> <<>>, invoked |-> FALSE,
     calls |-> <<>>, early |-> {}, source |-> "none", asked |-> <<>>,
     events |-> {}, raised |-> "none"]

\* which of the three ways a stream source is
SourceKind(src) ==
    IF ~src.client THEN "no_client"
    ELSE IF src.raises THEN "call_failed"
    ELSE "listed"

\* lines 237-244, without the return at line 241: the provider is asked
\* whatever the stream fetch gave
AskedAlways(streams, leagues) == leagues

\* lines 237-244: the leagues get_events is called for; none when the stream
\* fetch gave nothing
Asked(streams, leagues) == IF streams = <<>> THEN <<>> ELSE leagues

\* where the processing of a group raises: nowhere, in _match_streams, or in
\* _process_channels before the lifecycle service has changed a channel
CrashPoints == {"none", "match", "channels"}

\* str(e) of an exception caught at line 275
Raised(where) == Error("exception", 0)

\* lines 274-276 with the exception swallowed
CaughtSilently(r, where) == r

\* lines 274-276: the exception is caught and listed in the result
Caught(r, where) == [r EXCEPT !.errors = Append(@, Raised(where))]

\* events a run on the day before their start had a stream for
EarlyEvents(streams, day) ==
    {e \in EventIds :
        /\ EventOf(e).day = day + 1
        /\ \E i \in 1..Len(streams) : Mentions(streams[i].name) = e}

\* the group as created with the defaults (groups.py, lines 32-34), and one
\* with the other timing and duplicate policy
DefaultGroup ==
    [id |-> GroupId, leagues |-> Leagues, create_timing |-> "same_day",
     duplicate_event_handling |-> "consolidate"]

Groups ==
    {DefaultGroup,
     [DefaultGroup EXCEPT !.create_timing = "day_before",
                          !.duplicate_event_handling = "separate"]}

\* the target_date arguments of a run made on a day: None, or the day after
TargetArgs(day) == {NoDate, day + 1}

NoBatch == [made |-> FALSE, groups |-> <<>>, raised |-> <<>>, sources |-> <<>>,
            results |-> <<>>, completed |-> FALSE]

OrchInit ==
    /\ today = 0
    /\ group \in Groups
    /\ channels = {}
    /\ result = NewResult(GroupId)
    /\ run = NoRun
    /\ batch_result = NoBatch

notOrch == <<cacheVars, refreshVars, genVars, storeVars, matchVars, reconVars,
    moreVars>>

NextDay ==
    /\ today < MaxDay
    /\ today' = today + 1
    /\ UNCHANGED <<group, channels, result, run, batch_result, notOrch>>

\* process_group, lines 184-190: get_group finds nothing
ProcessUnknownGroup ==
    /\ result' = [NewResult(MissingGroupId) EXCEPT
                     !.errors = <<Error("Group not found", 0)>>,
                     !.completed = TRUE]
    /\ run' = [NoRun EXCEPT !.early = run.early]
    /\ UNCHANGED <<today, group, channels, batch_result, notOrch>>

\* _process_group_internal, lines 224-280: the result, the channels and the
\* history of the processing of group g for date on day
ProcessGroupInternal(g, date, day, src, down, fail, crash, chans, early) ==
    LET streams == FetchStreams(src)
        events == FetchEvents(g.leagues, date, down)
        results == MatchAll(StreamNames(streams), g.leagues, date, down)
        matched == BuildMatchedStreamList(streams, results)
        lr == ProcessChannels(matched, g, chans, day, fail)
        r0 == [NewResult(g.id) EXCEPT !.streams_fetched = Len(streams),
                                      !.completed = TRUE]
        r1 == [r0 EXCEPT !.streams_matched = MatchedCount(results),
                         !.streams_unmatched = UnmatchedCount(results)]
        made == [NoRun EXCEPT !.made = TRUE, !.day = day,
                              !.down = down, !.fail = fail, !.fetched = streams,
                              !.early = early \cup EarlyEvents(streams, day),
                              !.source = SourceKind(src),
                              !.asked = Asked(streams, g.leagues)]
        asked == [made EXCEPT !.events = IF made.asked = <<>> THEN {}
                                         ELSE {e.id : e \in events}]
    IN  IF streams = <<>>
        THEN [result |-> [r0 EXCEPT !.errors = <<Error("No streams found for group", 0)>>],
              run |-> asked,
              channels |-> chans]
        ELSE IF events = {}
        THEN [result |-> [r0 EXCEPT !.errors = <<Error("No events found for leagues", 0)>>],
              run |-> asked,
              channels |-> chans]
        ELSE IF crash = "match"
        THEN [result |-> Caught(r0, crash),
              run |-> [asked EXCEPT !.raised = crash],
              channels |-> chans]
        ELSE IF matched = <<>>
        THEN [result |-> r1,
              run |-> [asked EXCEPT !.results = results],
              channels |-> chans]
        ELSE IF crash = "channels"
        THEN [result |-> Caught(r1, crash),
              run |-> [asked EXCEPT !.results = results, !.matched = matched,
                                    !.raised = crash],
              channels |-> chans]
        ELSE [result |-> Aggregate(r1, lr),
              run |-> [asked EXCEPT !.results = results, !.matched = matched,
                                    !.invoked = TRUE, !.calls = lr.calls],
              channels |-> lr.channels]

\* process_group, lines 166-192, with _process_group_internal, lines 224-280
ProcessGroup(target_date, src, down, fail, crash) ==
    LET p == ProcessGroupInternal(group, TargetDate(target_date, today), today,
                                  src, down, fail, crash, channels, run.early)
    IN  /\ result' = p.result
        /\ run' = [p.run EXCEPT !.target = target_date]
        /\ channels' = p.channels
        /\ UNCHANGED <<today, group, batch_result, notOrch>>

\* what else a run meets, given its stream source: a run without streams
\* stops before it reads any of it; otherwise the leagues whose provider
\* fetch raises, the external calls that fail, and where the run raises (the
\* crash points being tried with everything else succeeding)
RunArgs(src) ==
    IF FetchStreams(src) = <<>>
    THEN {[down |-> {}, fail |-> {}, crash |-> "none"]}
    ELSE {[down |-> d, fail |-> f, crash |-> "none"] :
             d \in SUBSET {"nfl"}, f \in FailSets}
         \cup {[down |-> {}, fail |-> {}, crash |-> c] : c \in CrashPoints}

\* get_all_groups(conn, include_inactive=False): the active groups
SecondGroup == [DefaultGroup EXCEPT !.id = GroupId + 1]

ActiveGroupLists ==
    {<<>>, <<DefaultGroup>>, <<DefaultGroup, SecondGroup>>,
     <<SecondGroup, DefaultGroup>>}

\* the stream sources of a batch's groups: no client, or two streams of e1
BatchSources ==
    {src \in StreamSources :
        ~src.client \/ (Len(src.streams) = 2 /\ src.streams[2].id = 2)}

\* process_all_groups, lines 211-217: the loop over the groups
RECURSIVE BatchLoop(_, _, _, _, _, _, _, _)
BatchLoop(active, k, date, day, srcs, crashes, chans, acc) ==
    IF k > Len(active) THEN [acc EXCEPT !.channels = chans]
    ELSE LET p == ProcessGroupInternal(active[k], date, day, srcs[k], {}, {},
                                       crashes[k], chans, {})
         IN  BatchLoop(active, k + 1, date, day, srcs, crashes, p.channels,
                       [acc EXCEPT !.results = Append(@, p.result),
                                   !.raised = Append(@, p.run.raised # "none"),
                                   !.sources = Append(@, p.run.source)])

\* process_all_groups, lines 194-222
ProcessAllGroups(target_date, active, srcs, crashes) ==
    LET b == BatchLoop(active, 1, TargetDate(target_date, today), today, srcs,
                       crashes, channels,
                       [results |-> <<>>, raised |-> <<>>, sources |-> <<>>,
                        channels |-> channels])
    IN  /\ batch_result' =
              [made |-> TRUE,
               groups |-> [k \in 1..Len(active) |-> active[k].id],
               raised |-> b.raised,
               sources |-> b.sources,
               results |-> b.results,
               completed |-> TRUE]
        /\ channels' = b.channels
        /\ UNCHANGED <<today, group, result, run, notOrch>>

BatchNext ==
    \/ NextDay
    \/ \E target_date \in TargetArgs(today), active \in ActiveGroupLists :
          \E srcs \in [1..Len(active) -> BatchSources],
             crashes \in [1..Len(active) -> CrashPoints] :
             ProcessAllGroups(target_date, active, srcs, crashes)

OrchNext ==
    \/ NextDay
    \/ ProcessUnknownGroup
    \/ \E target_date \in TargetArgs(today), src \in StreamSources :
          \E a \in RunArgs(src) :
             ProcessGroup(target_date, src, a.down, a.fail, a.crash)

(***************************************************************************)
(* Historical event store: database/provider_cache.py                      *)
(***************************************************************************)
MaxStoreDay == 1

CACHE_MAX_AGE_DAYS == 180

Providers == {"espn"}
StoreLeagues == {"nfl"}
EventLists == {<<>>, <<"e1">>}

\* the event dates asked about on a day: one at the age limit, yesterday,
\* today and tomorrow
EventDates(day) == {day - CACHE_MAX_AGE_DAYS, day - 1, day, day + 1}

\* the key columns of a row; event_date is kept as date.isoformat()
StoreKey(provider, league, event_date) ==
    <<provider, league, IsoFormat(event_date)>>

\* a row of provider_cache; created_at (CURRENT_TIMESTAMP) is written and
\* never read, written_on is the history of date.today() at the INSERT
StoreRow(events_json, day) == [events_json |-> events_json, written_on |-> day]

\* cache_events, line 55, with the mistaken comparison that would let today's
\* events through
TodayOrLaterExclusive(event_date, day) == event_date > day

\* cache_events, line 55: event_date >= date.today()
TodayOrLater(event_date, day) == event_date >= day

NoCachePending == [active |-> FALSE, key |-> <<>>, events |-> <<>>]

NotCached == [found |-> FALSE, events |-> <<>>]

EmptyStore == [k \in {} |-> StoreRow(Corrupt, 0)]

StoreInit ==
    /\ provider_cache = EmptyStore
    /\ cachePending = NoCachePending
    /\ cachedRet = NotCached

notStore == <<cacheVars, refreshVars, genVars, group, channels, result, run,
              batch_result, matchVars, reconVars,
    moreVars>>

StoreNextDay ==
    /\ today < MaxStoreDay
    /\ today' = today + 1
    /\ UNCHANGED <<storeVars, notStore>>

\* get_cached_events, lines 21-46: a row that does not decode is reported as
\* absent and stays in the table
GetCachedEvents(provider, league, event_date) ==
    LET k == StoreKey(provider, league, event_date)
    IN  /\ cachedRet' =
              IF k \notin DOMAIN provider_cache THEN NotCached
              ELSE IF Decodable(provider_cache[k].events_json)
              THEN [found |-> TRUE,
                    events |-> JsonLoads(provider_cache[k].events_json)]
              ELSE NotCached
        /\ UNCHANGED <<today, provider_cache, cachePending, notStore>>

\* cache_events, lines 49-59: the date check, and the payload made ready
CacheEventsBegin(provider, league, event_date, events) ==
    /\ ~cachePending.active
    /\ cachePending' =
          IF TodayOrLater(event_date, today) THEN NoCachePending
          ELSE [active |-> TRUE,
                key |-> StoreKey(provider, league, event_date),
                events |-> JsonDumps(events)]
    /\ UNCHANGED <<today, provider_cache, cachedRet, notStore>>

\* cache_events, lines 61-69: INSERT OR REPLACE
CacheEventsCommit ==
    /\ cachePending.active
    /\ provider_cache' =
          Upsert(provider_cache, cachePending.key,
                 StoreRow(cachePending.events, today))
    /\ cachePending' = NoCachePending
    /\ UNCHANGED <<today, cachedRet, notStore>>

\* cleanup_old_entries, lines 72-84
CleanupOldEntries ==
    LET cutoff == IsoFormat(today - CACHE_MAX_AGE_DAYS)
        old == {k \in DOMAIN provider_cache : IsoLess(k[3], cutoff)}
    IN  /\ provider_cache' = DeleteRows(provider_cache, old)
        /\ UNCHANGED <<today, cachePending, cachedRet, notStore>>

\* a stored payload damaged on disk
CorruptStoreRow(k) ==
    /\ k \in DOMAIN provider_cache
    /\ Decodable(provider_cache[k].events_json)
    /\ provider_cache' =
          [provider_cache EXCEPT ![k].events_json = Corrupt]
    /\ UNCHANGED <<today, cachePending, cachedRet, notStore>>

StoreNext ==
    \/ StoreNextDay
    \/ \E provider \in Providers, league \in StoreLeagues,
          event_date \in EventDates(today) :
          \/ GetCachedEvents(provider, league, event_date)
          \/ \E events \in EventLists :
                CacheEventsBegin(provider, league, event_date, events)
    \/ CacheEventsCommit
    \/ CleanupOldEntries
    \/ \E k \in DOMAIN provider_cache : CorruptStoreRow(k)

(***************************************************************************)
(* Stream matching with the fingerprint cache: api/routes/epg.py,          *)
(* match_streams, over CachedMatcher                                       *)
(***************************************************************************)
MaxBatch == 2

MatchGroups == {1, 2}

\* the streams a group's source may list: in group 1 stream 1 goes by two
\* names; group 2 has a stream of the same id and name as one of group 1
MatchStreamsOf(group_id) ==
    IF group_id = 1
    THEN {Stream(1, "ESPN Feed 1"), Stream(1, "News"), Stream(2, "News")}
    ELSE {Stream(1, "ESPN Feed 1")}

\* the events the provider may offer for the date asked about
FeedEvents == {"e1"}

\* request.include_leagues of a group
IncludeLeagues(group_id) == IF group_id = 1 THEN {"nfl", "nba"} ELSE {"nba"}

RequestStreams(group_id) ==
    UNION { [1..n -> MatchStreamsOf(group_id)] : n \in 0..MaxBatch }

\* StreamBatchMatchRequest
Requests ==
    UNION { [group_id : {g}, streams : RequestStreams(g)] : g \in MatchGroups }

\* fingerprint = hash(group_id + stream_id + stream_name); the hash is taken
\* to tell any two triples apart
Fingerprint(group_id, stream_id, stream_name) ==
    <<"fp", group_id, stream_id, stream_name>>

FingerprintsOf(group_id, streams) ==
    {Fingerprint(group_id, streams[i].id, streams[i].name) : i \in 1..Len(streams)}

\* a miss: the fuzzy match of the name against the events on offer
FreshMatch(name, feed, include_leagues) ==
    LET hit == Mentions(name) \in feed
        league == IF hit THEN EventOf(Mentions(name)).league ELSE None
    IN  [stream_name |-> name,
         matched |-> hit,
         event |-> IF hit THEN Mentions(name) ELSE None,
         league |-> league,
         included |-> hit /\ league \in include_leagues,
         exclusion_reason |-> IF hit /\ league \notin include_leagues
                              THEN "league_not_included" ELSE None,
         from_cache |-> FALSE]

\* CachedMatcher.match_all: stream by stream, a hit reuses the stored result
\* and marks it cache-derived, a miss matches afresh and stores the result
RECURSIVE MatchAllCached(_, _, _, _, _)
MatchAllCached(streams, group_id, tbl, feed, done) ==
    IF streams = <<>> THEN [cache |-> tbl, results |-> done]
    ELSE LET s == Head(streams)
             fp == Fingerprint(group_id, s.id, s.name)
             isHit == fp \in DOMAIN tbl
             r == IF isHit THEN [tbl[fp] EXCEPT !.from_cache = TRUE]
                  ELSE FreshMatch(s.name, feed, IncludeLeagues(group_id))
         IN  MatchAllCached(Tail(streams), group_id,
                            IF isHit THEN tbl ELSE Upsert(tbl, fp, r),
                            feed, Append(done, r))

\* a rate of the batch result: count/total, 0 when total = 0
Rate(count, total) == IF total = 0 THEN <<0, 1>> ELSE <<count, total>>

CountOf(results, Test(_)) == Len(SelectSeq(results, Test))

\* BatchMatchResult: the results and the counts over them
BatchResult(results) ==
    LET total == Len(results)
        cache_hits == CountOf(results, LAMBDA r : r.from_cache)
    IN  [results |-> results,
         total |-> total,
         matched_count |-> MatchedCount(results),
         included_count |-> CountOf(results, LAMBDA r : r.included),
         unmatched_count |-> UnmatchedCount(results),
         match_rate |-> Rate(MatchedCount(results), total),
         cache_hits |-> cache_hits,
         cache_misses |-> total - cache_hits,
         cache_hit_rate |-> Rate(cache_hits, total)]

\* CachedMatcher.purge_stale: the group's entries whose fingerprint was not
\* met in the batch just matched
StaleFingerprints(tbl, group_id, seen) ==
    {fp \in DOMAIN tbl : fp[2] = group_id /\ fp \notin seen}

\* match_streams, line 389, keeping the id only
StreamDictsIdOnly(streams) ==
    [i \in 1..Len(streams) |-> Stream(streams[i].id, "")]

\* match_streams, line 389: streams = [{"id": s.id, "name": s.name} ...]
StreamDicts(streams) ==
    [i \in 1..Len(streams) |-> Stream(streams[i].id, streams[i].name)]

\* match_streams, lines 398-425, leaving the unmatched results out
BuildResponseMatchedOnly(batch) ==
    [total |-> batch.total,
     matched |-> batch.matched_count,
     included |-> batch.included_count,
     unmatched |-> batch.unmatched_count,
     match_rate |-> batch.match_rate,
     cache_hits |-> batch.cache_hits,
     cache_misses |-> batch.cache_misses,
     cache_hit_rate |-> batch.cache_hit_rate,
     results |-> SelectSeq(batch.results, LAMBDA r : r.matched)]

\* match_streams, lines 398-425: StreamBatchMatchResponse
BuildResponse(batch) ==
    [total |-> batch.total,
     matched |-> batch.matched_count,
     included |-> batch.included_count,
     unmatched |-> batch.unmatched_count,
     match_rate |-> batch.match_rate,
     cache_hits |-> batch.cache_hits,
     cache_misses |-> batch.cache_misses,
     cache_hit_rate |-> batch.cache_hit_rate,
     results |-> [i \in 1..Len(batch.results) |->
                     [stream_name |-> batch.results[i].stream_name,
                      matched |-> batch.results[i].matched,
                      event_id |-> batch.results[i].event,
                      league |-> batch.results[i].league,
                      included |-> batch.results[i].included,
                      exclusion_reason |-> batch.results[i].exclusion_reason,
                      from_cache |-> batch.results[i].from_cache]]]

EmptyMatchCache ==
    [fp \in {} |-> FreshMatch("", {}, {})]

NoResponse ==
    [request |-> [group_id |-> 0, streams |-> <<>>],
     body |-> BuildResponse(BatchResult(<<>>))]

MatchInit ==
    /\ match_cache = EmptyMatchCache
    /\ matchFeed \in SUBSET FeedEvents
    /\ response = NoResponse
    /\ purged = {}
    /\ feedChanged = FALSE

notMatch == <<cacheVars, refreshVars, genVars, orchVars, storeVars, reconVars,
    moreVars>>

\* the provider's events for the date change
EventDataChange ==
    /\ matchFeed' \in (SUBSET FeedEvents) \ {matchFeed}
    /\ feedChanged' = TRUE
    /\ UNCHANGED <<match_cache, response, purged, notMatch>>

\* match_streams with lines 392 and 395 in the other order: the matcher
\* purges before it has met a stream
MatchStreamsPurgeFirst(request) ==
    LET streams == StreamDicts(request.streams)
        stale == StaleFingerprints(match_cache, request.group_id, {})
        batch == MatchAllCached(streams, request.group_id,
                                DeleteRows(match_cache, stale), matchFeed, <<>>)
    IN  /\ match_cache' = batch.cache
        /\ purged' = stale
        /\ response' = [request |-> request,
                        body |-> BuildResponse(BatchResult(batch.results))]
        /\ feedChanged' = FALSE
        /\ UNCHANGED <<matchFeed, notMatch>>

\* match_streams without line 395
MatchStreamsNoPurge(request) ==
    LET streams == StreamDicts(request.streams)
        batch == MatchAllCached(streams, request.group_id, match_cache,
                                matchFeed, <<>>)
    IN  /\ match_cache' = batch.cache
        /\ purged' = {}
        /\ response' = [request |-> request,
                        body |-> BuildResponse(BatchResult(batch.results))]
        /\ feedChanged' = FALSE
        /\ UNCHANGED <<matchFeed, notMatch>>

\* match_streams, lines 364-425
MatchStreams(request) ==
    LET streams == StreamDicts(request.streams)
        batch == MatchAllCached(streams, request.group_id, match_cache,
                                matchFeed, <<>>)
        stale == StaleFingerprints(batch.cache, request.group_id,
                                   FingerprintsOf(request.group_id, streams))
    IN  /\ match_cache' = DeleteRows(batch.cache, stale)
        /\ purged' = stale
        /\ response' = [request |-> request,
                        body |-> BuildResponse(BatchResult(batch.results))]
        /\ feedChanged' = FALSE
        /\ UNCHANGED <<matchFeed, notMatch>>

MatchNext ==
    \/ EventDataChange
    \/ \E request \in Requests : MatchStreams(request)

(***************************************************************************)
(* Reconciliation: services/channel_service.py, ChannelService.reconcile,  *)
(* over the reconciler of teamarr.consumers.reconciliation                 *)
(***************************************************************************)
ManagedIds == {1, 2}
ExternalIds == {10, 20}
ChannelNames == {"A", "B"}

\* a ManagedChannel record: the external channel it stands for and the name
\* it should carry there
ManagedRecord(ext, name) == [dispatcharr_channel_id |-> ext, channel_name |-> name]

ManagedTables ==
    UNION { [S -> {ManagedRecord(e, "A") : e \in ExternalIds}] : S \in SUBSET ManagedIds }

ExternalTables ==
    UNION { [S -> ChannelNames] : S \in SUBSET ExternalIds }

Issue(type, severity, m, e, action, fixable) ==
    [issue_type |-> type, severity |-> severity, managed_channel_id |-> m,
     dispatcharr_channel_id |-> e, suggested_action |-> action,
     auto_fixable |-> fixable]

\* every issue a pass could raise, in the order the pass lists them
IssueCandidates ==
    << Issue("orphan_local", "warning", 1, 10, "delete_local", TRUE),
       Issue("orphan_local", "warning", 1, 20, "delete_local", TRUE),
       Issue("orphan_local", "warning", 2, 10, "delete_local", TRUE),
       Issue("orphan_local", "warning", 2, 20, "delete_local", TRUE),
       Issue("orphan_external", "warning", 0, 10, "delete_external", TRUE),
       Issue("orphan_external", "warning", 0, 20, "delete_external", TRUE),
       Issue("duplicate", "error", 0, 10, "review", FALSE),
       Issue("duplicate", "error", 0, 20, "review", FALSE),
       Issue("drift", "info", 1, 10, "sync", TRUE),
       Issue("drift", "info", 1, 20, "sync", TRUE),
       Issue("drift", "info", 2, 10, "sync", TRUE),
       Issue("drift", "info", 2, 20, "sync", TRUE) >>

TrackedBy(loc, e) == {m \in DOMAIN loc : loc[m].dispatcharr_channel_id = e}

\* the classification: is this issue there, given the two channel sets
Present(i, loc, ext) ==
    LET m == i.managed_channel_id
        e == i.dispatcharr_channel_id
        bound == m \in DOMAIN loc /\ loc[m].dispatcharr_channel_id = e
    IN  CASE i.issue_type = "orphan_local" -> bound /\ e \notin DOMAIN ext
          [] i.issue_type = "orphan_external" ->
                e \in DOMAIN ext /\ TrackedBy(loc, e) = {}
          [] i.issue_type = "duplicate" -> Cardinality(TrackedBy(loc, e)) >= 2
          [] OTHER -> /\ bound
                      /\ e \in DOMAIN ext
                      /\ ext[e] # loc[m].channel_name

Detect(loc, ext) == SelectSeq(IssueCandidates, LAMBDA i : Present(i, loc, ext))

\* the repair of one auto-fixable issue
Repair(i, loc, ext) ==
    LET m == i.managed_channel_id
        e == i.dispatcharr_channel_id
    IN  CASE i.issue_type = "orphan_local" ->
                [managed |-> [x \in (DOMAIN loc) \ {m} |-> loc[x]], external |-> ext]
          [] i.issue_type = "orphan_external" ->
                [managed |-> loc, external |-> [x \in (DOMAIN ext) \ {e} |-> ext[x]]]
          [] i.issue_type = "drift" /\ m \in DOMAIN loc /\ e \in DOMAIN ext ->
                [managed |-> loc,
                 external |-> [ext EXCEPT ![e] = loc[m].channel_name]]
          [] OTHER -> [managed |-> loc, external |-> ext]

\* the auto-fix loop: an issue not flagged auto_fixable is skipped, a repair
\* whose external call fails is skipped with an error, the others are fixed
RECURSIVE AutoFix(_, _, _, _)
AutoFix(issues, k, fail, st) ==
    IF k > Len(issues) THEN st
    ELSE LET i == issues[k]
         IN  IF ~i.auto_fixable
             THEN AutoFix(issues, k + 1, fail,
                          [st EXCEPT !.issues_skipped = @ + 1])
             ELSE IF k \in fail
             THEN AutoFix(issues, k + 1, fail,
                          [st EXCEPT !.issues_skipped = @ + 1,
                                     !.errors = Append(@, "fix failed")])
             ELSE LET r == Repair(i, st.managed, st.external)
                  IN  AutoFix(issues, k + 1, fail,
                              [st EXCEPT !.managed = r.managed,
                                         !.external = r.external,
                                         !.issues_fixed = @ + 1])

CountType(issues, type) == Len(SelectSeq(issues, LAMBDA i : i.issue_type = type))

\* reconciler.reconcile(auto_fix, group_ids = None): classify, then repair
\* when asked to
ReconcilerReconcile(auto_fix, fail, loc, ext) ==
    LET issues == Detect(loc, ext)
        st0 == [managed |-> loc, external |-> ext, issues_fixed |-> 0,
                issues_skipped |-> 0, errors |-> <<>>]
        st == IF auto_fix THEN AutoFix(issues, 1, fail, st0) ELSE st0
    IN  [managed |-> st.managed,
         external |-> st.external,
         issues_found |-> issues,
         summary |-> [orphan_teamarr |-> CountType(issues, "orphan_local"),
                      orphan_dispatcharr |-> CountType(issues, "orphan_external"),
                      duplicates |-> CountType(issues, "duplicate"),
                      drift |-> CountType(issues, "drift")],
         issues_fixed |-> st.issues_fixed,
         issues_skipped |-> st.issues_skipped,
         errors |-> st.errors]

\* reconcile, lines 138-152, keeping the auto-fixable issues only
ConvertIssuesFixableOnly(issues) ==
    SelectSeq(issues, LAMBDA i : i.auto_fixable)

\* reconcile, lines 138-152: one service issue per consumer issue, in order
ConvertIssues(issues) ==
    [k \in 1..Len(issues) |->
        Issue(issues[k].issue_type, issues[k].severity,
              issues[k].managed_channel_id, issues[k].dispatcharr_channel_id,
              issues[k].suggested_action, issues[k].auto_fixable)]

\* summary.get(key, 0), lines 154-159
SummaryGet(summary, key) == IF key \in DOMAIN summary THEN summary[key] ELSE 0

\* reconcile, lines 154-168: ReconciliationSummary and ReconciliationResult
ConvertResult(auto_fix, r) ==
    [made |-> TRUE,
     auto_fix |-> auto_fix,
     summary |-> [orphan_teamarr |-> SummaryGet(r.summary, "orphan_teamarr"),
                  orphan_dispatcharr |-> SummaryGet(r.summary, "orphan_dispatcharr"),
                  duplicates |-> SummaryGet(r.summary, "duplicates"),
                  drift |-> SummaryGet(r.summary, "drift")],
     issues_found |-> ConvertIssues(r.issues_found),
     issues_fixed |-> r.issues_fixed,
     issues_skipped |-> r.issues_skipped,
     errors |-> r.errors]

NoReconciliation ==
    [made |-> FALSE,
     auto_fix |-> FALSE,
     summary |-> [orphan_teamarr |-> 0, orphan_dispatcharr |-> 0,
                  duplicates |-> 0, drift |-> 0],
     issues_found |-> <<>>,
     issues_fixed |-> 0,
     issues_skipped |-> 0,
     errors |-> <<>>]

\* the repairs whose external call fails, by position in the issue list
RepairFailures == {{}, {1}, {2, 3}}

ReconInit ==
    /\ managed \in ManagedTables
    /\ external \in ExternalTables
    /\ reconciled = NoReconciliation

notRecon == <<cacheVars, refreshVars, genVars, orchVars, storeVars, matchVars,
    moreVars>>

\* ChannelService.reconcile, lines 118-168
Reconcile(auto_fix, fail) ==
    LET r == ReconcilerReconcile(auto_fix, fail, managed, external)
    IN  /\ managed' = r.managed
        /\ external' = r.external
        /\ reconciled' = ConvertResult(auto_fix, r)
        /\ UNCHANGED notRecon

\* the external system's channels change under the service: one is renamed
\* or removed
ExternalChange(e) ==
    /\ e \in DOMAIN external
    /\ \/ \E n \in ChannelNames \ {external[e]} :
             external' = [external EXCEPT ![e] = n]
       \/ external' = [x \in (DOMAIN external) \ {e} |-> external[x]]
    /\ UNCHANGED <<managed, reconciled, notRecon>>

ReconNext ==
    \/ \E auto_fix \in BOOLEAN, fail \in RepairFailures : Reconcile(auto_fix, fail)
    \/ \E e \in ExternalIds : ExternalChange(e)

(***************************************************************************)
(* PersistentTTLCache: the process-wide lock around the shared store.      *)
(* The rows are modelled by the durable-cache actions above; here each     *)
(* method is followed through its steps around the lock and the database   *)
(* connection, for threads that may use different cache instances.         *)
(***************************************************************************)
Threads == {"t1", "t2"}
NoThread == "none"

\* the methods of PersistentTTLCache that open a connection to the store
StoreOps == {"get", "set", "delete", "clear", "cleanup_expired", "size", "stats"}

\* the methods whose body is inside "with _persistent_cache_lock:", lines
\* 196, 235, 255, 262, 273, 299; the size property, lines 286-292, is not
LockedOps == StoreOps \ {"size"}

\* where a thread is: outside any call; in a call before its first statement
\* that touches the lock or the store; holding the lock with no connection
\* open; with a connection open; past its last connection
NoStoreCall == [op |-> "none", pc |-> "idle", accesses |-> 0]

LockInit ==
    /\ persistent_cache_lock = NoThread
    /\ storeCall = [t \in Threads |-> NoStoreCall]

notLock == <<cacheVars, refreshVars, genVars, orchVars, storeVars, matchVars,
             reconVars, ttl_call, fuzzy_call, keyword_call>>

\* a thread enters one of the methods
CallStore(t, op) ==
    /\ storeCall[t].pc = "idle"
    /\ storeCall' = [storeCall EXCEPT ![t] = [op |-> op, pc |-> "called", accesses |-> 0]]
    /\ UNCHANGED <<persistent_cache_lock, notLock>>

\* with _persistent_cache_lock: blocks until the lock is free
AcquireLock(t) ==
    /\ storeCall[t].pc = "called"
    /\ storeCall[t].op \in LockedOps
    /\ persistent_cache_lock = NoThread
    /\ persistent_cache_lock' = t
    /\ storeCall' = [storeCall EXCEPT ![t].pc = "locked"]
    /\ UNCHANGED notLock

\* with get_db() as conn: the statement(s) of the method run on the store
OpenStore(t) ==
    /\ \/ storeCall[t].pc = "locked"
       \/ storeCall[t].pc = "called" /\ storeCall[t].op \notin LockedOps
    /\ storeCall' = [storeCall EXCEPT ![t].pc = "db", ![t].accesses = @ + 1]
    /\ UNCHANGED <<persistent_cache_lock, notLock>>

\* the connection is closed. get, lines 207-224: on an expired or undecodable
\* row _delete_key opens a second connection; size returns here
CloseStore(t, again) ==
    /\ storeCall[t].pc = "db"
    /\ again => storeCall[t].op = "get" /\ storeCall[t].accesses = 1
    /\ storeCall' = [storeCall EXCEPT ![t] =
           IF persistent_cache_lock # t THEN NoStoreCall
           ELSE [@ EXCEPT !.pc = IF again THEN "locked" ELSE "closed"]]
    /\ UNCHANGED <<persistent_cache_lock, notLock>>

\* the with block of the lock ends and the method returns
ReleaseLock(t) ==
    /\ storeCall[t].pc = "closed"
    /\ persistent_cache_lock = t
    /\ persistent_cache_lock' = NoThread
    /\ storeCall' = [storeCall EXCEPT ![t] = NoStoreCall]
    /\ UNCHANGED notLock

LockNext ==
    \/ \E t \in Threads, op \in StoreOps : CallStore(t, op)
    \/ \E t \in Threads : AcquireLock(t)
    \/ \E t \in Threads : OpenStore(t)
    \/ \E t \in Threads, again \in BOOLEAN : CloseStore(t, again)
    \/ \E t \in Threads : ReleaseLock(t)

(***************************************************************************)
(* get_events_cache_ttl: the tiered TTL of cached event lists              *)
(***************************************************************************)
\* the days date.today() is drawn from
MaxTtlDay == 5
\* target_date arguments: from before the first day to after the last
TtlDates == (0 - 2)..(MaxTtlDay + 3)

\* a mutant: no tier for tomorrow
EventsCacheTtlNoTomorrow(target_date, day) ==
    LET days_from_today == target_date - day
    IN  IF days_from_today < 0 THEN 180 * 24 * 60 * 60
        ELSE IF days_from_today = 0 THEN 30 * 60
        ELSE 8 * 60 * 60

\* get_events_cache_ttl, lines 352-362, with today = date.today() of line 351
EventsCacheTtl(target_date, day) ==
    LET days_from_today == target_date - day
    IN  IF days_from_today < 0 THEN 180 * 24 * 60 * 60
        ELSE IF days_from_today = 0 THEN 30 * 60
        ELSE IF days_from_today = 1 THEN 4 * 60 * 60
        ELSE 8 * 60 * 60

TtlCalls ==
    {[today |-> t, target_date |-> d, returned |-> FALSE, ttl |-> 0] :
        t \in 0..MaxTtlDay, d \in TtlDates}

TtlInit == ttl_call \in TtlCalls

TtlRest == ttl_call = [today |-> 0, target_date |-> 0, returned |-> FALSE, ttl |-> 0]

notTtl == <<cacheVars, refreshVars, genVars, orchVars, storeVars, matchVars,
            reconVars, lockVars, fuzzy_call, keyword_call>>

\* get_events_cache_ttl(target_date), lines 339-362
GetEventsCacheTtl ==
    /\ ~ttl_call.returned
    /\ ttl_call' = [ttl_call EXCEPT
           !.returned = TRUE,
           !.ttl = EventsCacheTtl(ttl_call.target_date, ttl_call.today)]
    /\ UNCHANGED notTtl

TtlNext == GetEventsCacheTtl

(***************************************************************************)
(* Text: a Python str is the sequence of its characters; the part of re    *)
(* the program uses (a literal between two zero-width assertions)          *)
(***************************************************************************)
UpperLetters == <<"A", "B", "C", "D", "E", "F", "G", "H", "I", "J", "K", "L", "M",
                  "N", "O", "P", "Q", "R", "S", "T", "U", "V", "W", "X", "Y", "Z">>
LowerLetters == <<"a", "b", "c", "d", "e", "f", "g", "h", "i", "j", "k", "l", "m",
                  "n", "o", "p", "q", "r", "s", "t", "u", "v", "w", "x", "y", "z">>
Digits == {"0", "1", "2", "3", "4", "5", "6", "7", "8", "9"}

\* \w on the characters used here: letters, digits and the underscore
IsWordChar(c) ==
    \/ \E i \in 1..26 : c = UpperLetters[i] \/ c = LowerLetters[i]
    \/ c \in Digits
    \/ c = "_"

\* str.lower(), character by character
LowerChar(c) ==
    IF \E i \in 1..26 : c = UpperLetters[i]
    THEN LowerLetters[CHOOSE i \in 1..26 : c = UpperLetters[i]]
    ELSE c
StrLower(t) == [i \in 1..Len(t) |-> LowerChar(t[i])]

\* is there a word character at index i of t; none outside the string
WordAt(t, i) == i \in 1..Len(t) /\ IsWordChar(t[i])

\* the literal p is in t from index i on
OccursAt(t, p, i) ==
    /\ i >= 1
    /\ i + Len(p) - 1 <= Len(t)
    /\ \A j \in 1..Len(p) : t[i + j - 1] = p[j]

\* p in t
Contains(t, p) == \E i \in 1..(Len(t) + 1) : OccursAt(t, p, i)

\* a zero-width assertion before index i of t: \b, (?<!\w), (?!\w)
Asserts(kind, t, i) ==
    CASE kind = "b" -> WordAt(t, i - 1) # WordAt(t, i)
      [] kind = "not_after_word" -> ~WordAt(t, i - 1)
      [] kind = "not_before_word" -> ~WordAt(t, i)

\* the match of pattern start + re.escape(literal) + end at index i of t
MatchesAt(pattern, t, i) ==
    /\ OccursAt(t, pattern.literal, i)
    /\ Asserts(pattern.start, t, i)
    /\ Asserts(pattern.end, t, i + Len(pattern.literal))

\* re.search(pattern, t) finds a match
ReSearch(pattern, t) == \E i \in 1..(Len(t) + 1) : MatchesAt(pattern, t, i)

\* all strings over an alphabet, up to a length
StringsOver(alphabet, n) == UNION {[1..m -> alphabet] : m \in 0..n}

(***************************************************************************)
(* check_exception_keyword: the exception keyword of a stream name         *)
(***************************************************************************)
\* the longest generated stream name
MaxNameLen == 2
\* the longest keyword list
MaxKeywords == 2

\* a mutant: \b on both sides whatever the term begins and ends with
MakeKeywordPatternWordBoundaries(term) ==
    [start |-> "b", literal |-> StrLower(term), end |-> "b"]

\* _make_keyword_pattern, lines 26-55
MakeKeywordPattern(term) ==
    [start |-> IF term # <<>> /\ IsWordChar(term[1])
               THEN "b" ELSE "not_after_word",
     literal |-> StrLower(term),
     end |-> IF term # <<>> /\ IsWordChar(term[Len(term)])
             THEN "b" ELSE "not_before_word"]

\* (None, None)
NoKeyword == [label |-> None, behavior |-> None]

\* lines 80-83: a term of the keyword is found in the lowercased name
KeywordMatches(kw, stream_lower) ==
    \E n \in 1..Len(kw.match_term_list) :
        ReSearch(MakeKeywordPattern(kw.match_term_list[n]), stream_lower)

\* check_exception_keyword, lines 58-87
CheckExceptionKeyword(stream_name, keywords) ==
    LET stream_lower == StrLower(stream_name)
        matching == {k \in 1..Len(keywords) : KeywordMatches(keywords[k], stream_lower)}
    IN  IF matching = {} THEN NoKeyword
        ELSE LET kw == keywords[CHOOSE k \in matching : \A m \in matching : k <= m]
             IN  [label |-> kw.label, behavior |-> kw.behavior]

\* terms and stream names
TermEli == <<"E", "l", "i">>
TermEsp == <<"(", "E", "S", "P", ")">>
TermPeytonAndEli == <<"P", "e", "y", "t", "o", "n", " ", "a", "n", "d", " ", "E", "l", "i">>
TermE == <<"e">>
TermParenE == <<"(", "E">>
NameEspFeed == <<"N", "F", "L", " ", "(", "E", "S", "P", ")", " ", "f", "e", "e", "d">>
NamePelicans == <<"P", "e", "l", "i", "c", "a", "n", "s", " ", "v", "s", " ", "H", "e", "a", "t">>
NameManningcast == <<"M", "N", "F", ":", " ", "P", "e", "y", "t", "o", "n", " ", "a", "n", "d", " ", "E", "l", "i">>
NameFeed1 == <<"F", "e", "e", "d", "_", "(", "E", "S", "P", ")", "1">>

ExceptionKeyword(label, behavior, terms) ==
    [label |-> label, behavior |-> behavior, match_term_list |-> terms]

KeywordSamples ==
    { ExceptionKeyword("Spanish", "separate", <<TermEsp>>),
      ExceptionKeyword("Manningcast", "separate", <<TermPeytonAndEli, TermEli>>),
      ExceptionKeyword("Eli", "ignore", <<TermEli>>),
      ExceptionKeyword("E", "consolidate", <<TermE, TermParenE>>),
      ExceptionKeyword("Paren", "ignore", <<TermParenE>>) }

KeywordLists == UNION {[1..m -> KeywordSamples] : m \in 0..MaxKeywords}

StreamNameSamples ==
    StringsOver({"e", "E", "(", " "}, MaxNameLen)
    \cup {NameEspFeed, NamePelicans, NameManningcast, NameFeed1}

NoKeywordCall ==
    [stream_name |-> <<>>, keywords |-> <<>>, returned |-> FALSE, result |-> NoKeyword]

KeywordCalls ==
    {[NoKeywordCall EXCEPT !.stream_name = n, !.keywords = k] :
        n \in StreamNameSamples, k \in KeywordLists}

KeywordInit == keyword_call \in KeywordCalls

KeywordRest == keyword_call = NoKeywordCall

notKeyword == <<cacheVars, refreshVars, genVars, orchVars, storeVars, matchVars,
                reconVars, lockVars, ttl_call, fuzzy_call>>

\* check_exception_keyword(stream_name, keywords), lines 58-87
CheckKeyword ==
    /\ ~keyword_call.returned
    /\ keyword_call' = [keyword_call EXCEPT
           !.returned = TRUE,
           !.result = CheckExceptionKeyword(keyword_call.stream_name,
                                            keyword_call.keywords)]
    /\ UNCHANGED notKeyword

KeywordNext == CheckKeyword

(***************************************************************************)
(* FuzzyMatcher.matches_any: does a team pattern match a stream text       *)
(***************************************************************************)
\* the longest generated text
MaxTextLen == 3
\* the longest pattern list
MaxPatterns == 2

\* ABBREVIATIONS, lines 16-24, in the order of sorted(..., key=len,
\* reverse=True): longest first, dict order among equal lengths
Abbreviations ==
    << <<<<"u", "f", "c", " ", "f", "n">>, <<"u", "f", "c", " ", "f", "i", "g", "h", "t", " ", "n", "i", "g", "h", "t">>>>,
       <<<<"p", "p", "v">>, <<"p", "a", "y", " ", "p", "e", "r", " ", "v", "i", "e", "w">>>>,
       <<<<"f", "n">>, <<"f", "i", "g", "h", "t", " ", "n", "i", "g", "h", "t">>>>,
       <<<<"v", "s">>, <<"v", "e", "r", "s", "u", "s">>>>,
       <<<<"v">>, <<"v", "e", "r", "s", "u", "s">>>> >>

\* r"\b" + re.escape(tp.pattern) + r"\b", lines 172 and 229
WordPattern(literal) == [start |-> "b", literal |-> literal, end |-> "b"]

\* re.sub(pattern, expansion, t) from index i on: the matches are taken from
\* left to right and do not overlap
RECURSIVE ReSub(_, _, _, _)
ReSub(t, i, abbrev, expansion) ==
    IF i > Len(t) THEN <<>>
    ELSE IF MatchesAt(WordPattern(abbrev), t, i)
    THEN expansion \o ReSub(t, i + Len(abbrev), abbrev, expansion)
    ELSE <<t[i]>> \o ReSub(t, i + 1, abbrev, expansion)

\* the loop of lines 169-173 from the n-th abbreviation on
RECURSIVE ExpandFrom(_, _)
ExpandFrom(t, n) ==
    IF n > Len(Abbreviations) THEN t
    ELSE ExpandFrom(ReSub(t, 1, Abbreviations[n][1], Abbreviations[n][2]), n + 1)

\* _expand_abbreviations, lines 158-175
ExpandAbbreviations(text) == ExpandFrom(StrLower(text), 1)

\* MIN_SUBSTRING_LENGTH, line 180
MIN_SUBSTRING_LENGTH == 5
\* partial_threshold, line 68
PartialThreshold == 90

\* " " in tp.pattern
HasSpace(pattern) == \E i \in 1..Len(pattern) : pattern[i] = " "

\* coverage >= MIN_COVERAGE_RATIO, lines 241-242, with the ratio 0.70
Covers(pattern, t) == 10 * Len(pattern) >= 7 * Len(t)

\* a mutant: strategy 2 looks for the pattern anywhere in the text
SubstringMatch(pattern, t) == Contains(t, pattern)

\* strategy 2, lines 229-230
WordBoundaryMatch(pattern, t) == ReSearch(WordPattern(pattern), t)

TeamPattern(pattern, is_distinctive) ==
    [pattern |-> pattern, is_distinctive |-> is_distinctive]

\* FuzzyMatchResult(matched=False, score=0.0); no pattern_used is <<>>
NotMatched == [matched |-> FALSE, score |-> 0, pattern_used |-> <<>>]
Matched(score, tp) == [matched |-> TRUE, score |-> score, pattern_used |-> tp.pattern]

\* the first pattern, in list order, of a set of positions
FirstOf(patterns, positions) ==
    patterns[CHOOSE n \in positions : \A m \in positions : n <= m]

\* matches_any, lines 188-267, on the expanded text.  fuzz.token_set_ratio
\* and fuzz.partial_ratio are rapidfuzz's: their scores are inputs
MatchesAnyExpanded(patterns, text_lower, token_set_ratio, partial_ratio) ==
    LET all == 1..Len(patterns)
        fullName == {n \in all :
            /\ patterns[n].is_distinctive
            /\ HasSpace(patterns[n].pattern)
            /\ Contains(text_lower, patterns[n].pattern)}
        wordBoundary == {n \in all :
            /\ patterns[n].is_distinctive
            /\ WordBoundaryMatch(patterns[n].pattern, text_lower)}
        coverage == {n \in all :
            /\ ~patterns[n].is_distinctive
            /\ Len(patterns[n].pattern) >= MIN_SUBSTRING_LENGTH
            /\ \/ /\ Contains(text_lower, patterns[n].pattern)
                  /\ Covers(patterns[n].pattern, text_lower)
               \/ /\ HasSpace(patterns[n].pattern)
                  /\ ReSearch(WordPattern(patterns[n].pattern), text_lower)}
        multiWord == {n \in all :
            patterns[n].is_distinctive /\ HasSpace(patterns[n].pattern)}
    IN  IF fullName # {} THEN Matched(100, FirstOf(patterns, fullName))
        ELSE IF wordBoundary # {} THEN Matched(100, FirstOf(patterns, wordBoundary))
        ELSE IF coverage # {} THEN Matched(100, FirstOf(patterns, coverage))
        ELSE IF multiWord # {} /\ token_set_ratio >= PartialThreshold
        THEN Matched(token_set_ratio, FirstOf(patterns, multiWord))
        ELSE IF multiWord # {} /\ partial_ratio >= PartialThreshold
        THEN Matched(partial_ratio, FirstOf(patterns, multiWord))
        ELSE NotMatched

\* the scores rapidfuzz may give: below and above the threshold
FuzzScores == {0, 95}

PatternTexts == {<<"s">>, <<"v", "s">>, <<"s", " ", "v">>, <<"h", "a", "w", "k", "s">>}
PatternSamples == {TeamPattern(q, d) : q \in PatternTexts, d \in BOOLEAN}
PatternLists == UNION {[1..m -> PatternSamples] : m \in 1..MaxPatterns}

TextAtlantaHawks == <<"A", "t", "l", "a", "n", "t", "a", " ", "H", "a", "w", "k", "s">>
TextChicagoBlackhawks == <<"C", "h", "i", "c", "a", "g", "o", " ", "B", "l", "a", "c", "k", "h", "a", "w", "k", "s">>
TextXhawks == <<"x", "h", "a", "w", "k", "s">>
TextSamples ==
    StringsOver({"s", "v", " "}, MaxTextLen)
    \cup {TextAtlantaHawks, TextChicagoBlackhawks, TextXhawks, <<"s", "-", "v">>}

NoFuzzyCall ==
    [patterns |-> <<>>, text |-> <<>>, returned |-> FALSE, text_lower |-> <<>>,
     result |-> NotMatched]

FuzzyCalls ==
    {[NoFuzzyCall EXCEPT !.patterns = l, !.text = t] :
        l \in PatternLists, t \in TextSamples}

FuzzyInit == fuzzy_call \in FuzzyCalls

FuzzyRest == fuzzy_call = NoFuzzyCall

notFuzzy == <<cacheVars, refreshVars, genVars, orchVars, storeVars, matchVars,
              reconVars, lockVars, ttl_call, keyword_call>>

\* matches_any(patterns, text), lines 188-267
MatchesAny(token_set_ratio, partial_ratio) ==
    LET text_lower == ExpandAbbreviations(fuzzy_call.text)
    IN  /\ ~fuzzy_call.returned
        /\ fuzzy_call' = [fuzzy_call EXCEPT
               !.returned = TRUE,
               !.text_lower = text_lower,
               !.result = MatchesAnyExpanded(fuzzy_call.patterns, text_lower,
                                             token_set_ratio, partial_ratio)]
        /\ UNCHANGED notFuzzy

FuzzyNext == \E token_set_ratio, partial_ratio \in FuzzScores :
                MatchesAny(token_set_ratio, partial_ratio)

(***************************************************************************)
(* Specifications: one per component, the others at rest.                  *)
(***************************************************************************)
CacheRest == CacheInit /\ variant = "memory"
OrchRest == OrchInit /\ group = DefaultGroup
MatchRest == MatchInit /\ matchFeed = {}
ReconRest == ReconInit /\ managed = <<>> /\ external = <<>>


MoreRest == LockInit /\ TtlRest /\ FuzzyRest /\ KeywordRest

InitCache == CacheInit /\ RefreshInit /\ GenInit /\ OrchRest /\ StoreInit /\ MatchRest /\ ReconRest /\ MoreRest
InitRefresh == CacheRest /\ RefreshInit /\ GenInit /\ OrchRest /\ StoreInit /\ MatchRest /\ ReconRest /\ MoreRest
InitGen == CacheRest /\ RefreshInit /\ GenInit /\ OrchRest /\ StoreInit /\ MatchRest /\ ReconRest /\ MoreRest
InitOrch == CacheRest /\ RefreshInit /\ GenInit /\ OrchInit /\ StoreInit /\ MatchRest /\ ReconRest /\ MoreRest
InitStore == CacheRest /\ RefreshInit /\ GenInit /\ OrchRest /\ StoreInit /\ MatchRest /\ ReconRest /\ MoreRest
InitMatch == CacheRest /\ RefreshInit /\ GenInit /\ OrchRest /\ StoreInit /\ MatchInit /\ ReconRest /\ MoreRest
InitBatch == CacheRest /\ RefreshInit /\ GenInit /\ OrchRest /\ StoreInit /\ MatchRest /\ ReconRest /\ MoreRest
InitRecon == CacheRest /\ RefreshInit /\ GenInit /\ OrchRest /\ StoreInit /\ MatchRest /\ ReconInit /\ MoreRest

InitLock == CacheRest /\ RefreshInit /\ GenInit /\ OrchRest /\ StoreInit /\ MatchRest /\ ReconRest /\ LockInit /\ TtlRest /\ FuzzyRest /\ KeywordRest

InitKeyword == CacheRest /\ RefreshInit /\ GenInit /\ OrchRest /\ StoreInit /\ MatchRest /\ ReconRest /\ LockInit /\ TtlRest /\ FuzzyRest /\ KeywordInit

InitFuzzy == CacheRest /\ RefreshInit /\ GenInit /\ OrchRest /\ StoreInit /\ MatchRest /\ ReconRest /\ LockInit /\ TtlRest /\ FuzzyInit /\ KeywordRest

InitTtl == CacheRest /\ RefreshInit /\ GenInit /\ OrchRest /\ StoreInit /\ MatchRest /\ ReconRest /\ LockInit /\ TtlInit /\ FuzzyRest /\ KeywordRest

SpecCache == InitCache /\ [][CacheNext]_vars

SpecRefresh == InitRefresh /\ [][RefreshNext]_vars

SpecGen == InitGen /\ [][GenNext]_vars

\* the consumer loop and the worker's last puts go on running; that a run
\* of run_full_generation ends, or that a client reads, is not assumed
SpecGenFair ==
    /\ SpecGen
    /\ \A s \in Streams :
          /\ WF_vars(ConsumerGet(s))
          /\ WF_vars(ConsumerJoin(s))
          /\ WF_vars(ConsumerFinal(s))
          /\ WF_vars(WorkerPutStatus(s))
          /\ WF_vars(WorkerSentinel(s))

\* the consumer and the worker go on, and run_full_generation returns or
\* raises; the client is not obliged to read
SpecGenRunFair ==
    /\ SpecGenFair
    /\ \A s \in Streams : WF_vars(\E o \in Outcomes : WorkerFinish(s, o))

SpecOrch == InitOrch /\ [][OrchNext]_vars

SpecBatch == InitBatch /\ [][BatchNext]_vars

SpecStore == InitStore /\ [][StoreNext]_vars

SpecMatch == InitMatch /\ [][MatchNext]_vars

SpecRecon == InitRecon /\ [][ReconNext]_vars

SpecLock == InitLock /\ [][LockNext]_vars

SpecTtl == InitTtl /\ [][TtlNext]_vars

SpecFuzzy == InitFuzzy /\ [][FuzzyNext]_vars

SpecKeyword == InitKeyword /\ [][KeywordNext]_vars

(***************************************************************************)
(* Claims about the caches                                                 *)
(***************************************************************************)
\* C1: a TTLCache built with max_size > 0 never holds more than max_size
\* entries, whatever calls of set, get, delete, cleanup_expired and clear
\* were made and however they interleave
SizeBounded == variant = "memory" => Len(cache) <= MaxSize

\* C1 witness: the cache is full right after a set that evicted the LRU entry
SizeBoundedWitness == variant = "memory" /\ Len(cache) = MaxSize /\ evict.lru = 1

\* C2: a set of a new key into a cache holding max_size unexpired entries
\* removes exactly one entry, and no other entry was touched (by a
\* successful get or set) earlier than the removed one
LruVictimOldest ==
    [][\A k \in Keys, v \in Values, s \in TtlArgs :
          (/\ SetCommit(k, v, s)
           /\ ~Has(cache, k)
           /\ Len(cache) = MaxSize
           /\ ExpiredKeys(cache, now) = {})
          => \E victim \in KeysOf(cache) :
                /\ KeysOf(cache') = (KeysOf(cache) \ {victim}) \cup {k}
                /\ \A u \in KeysOf(cache) \ {victim} : touched[victim] <= touched[u]
      ]_cacheVars

\* C3: in both variants a get later than the entry's expires_at returns
\* absent and removes the entry, which then stays absent until a set of that
\* key; a get at or before expires_at returns the stored value (the decoded
\* payload of the durable row) and leaves the entry as it was
GetExpiry ==
    /\ (variant = "memory" /\ probe # NoProbe) =>
          IF probe.at > probe.expires_at
          THEN ret = None /\ ~Has(cache, probe.key)
          ELSE /\ ret = probe.stored
               /\ ret \in Values
               /\ Has(cache, probe.key)
               /\ EntryOf(cache, probe.key).value = probe.stored
               /\ EntryOf(cache, probe.key).expires_at = probe.expires_at
    /\ (variant = "durable" /\ probe # NoProbe) =>
          IF probe.at > FromIsoFormat(probe.expires_at)
          THEN ret = None /\ probe.key \notin DOMAIN service_cache
          ELSE Decodable(probe.stored) =>
                  /\ JsonDumps(ret) = probe.stored
                  /\ ret \in Values
                  /\ probe.key \in DOMAIN service_cache
                  /\ service_cache[probe.key] = Row(probe.stored, probe.expires_at)
    /\ \A k \in gone : ~Has(cache, k) /\ k \notin DOMAIN service_cache

\* C3 witness: a get found an entry past its expires_at
GetExpiryWitness ==
    /\ probe # NoProbe
    /\ ret = None
    /\ probe.key \in gone
    /\ \/ variant = "memory" /\ probe.at > probe.expires_at
       \/ variant = "durable" /\ probe.at > FromIsoFormat(probe.expires_at)

(***************************************************************************)
(* Claims about the status records and the streamed generation             *)
(***************************************************************************)
\* C4: at most one generation run is in flight at any time, whichever entry
\* point (generate_epg or generate_epg_stream) the starts come through
OneRunInFlight == RunsInFlight <= 1

\* C5: of the start_refresh calls made with no complete_refresh or
\* fail_refresh in between exactly one returns True, and a call that returns
\* False leaves the whole status record as it found it
StartRefreshTestAndSet ==
    /\ refreshCalls > 0 => refreshWins = 1
    /\ refreshRet = "False" => refresh = refreshPrev /\ refresh.in_progress

\* C5 witness: a second start_refresh returned False on a record that
\* update_refresh_status had moved on
StartRefreshTestAndSetWitness ==
    /\ refreshRet = "False"
    /\ refreshCalls = 2
    /\ refresh.status = "discovering"
    /\ refresh.percent = 50

\* the snapshots a stream has emitted are the first ones its worker put
EmittedPrefix(s) ==
    /\ Len(emitted[s]) <= Len(enq[s])
    /\ emitted[s] = SubSeq(enq[s], 1, Len(emitted[s]))

\* C6: the consumer emits exactly one final status, after it has taken the
\* sentinel, also when the worker raised; every snapshot the worker put is
\* emitted before it, in the order it was put
FinalStatusAfterSnapshots ==
    \A s \in Streams :
        /\ finals[s] <= 1
        /\ finals[s] = 1 <=> phase[s] = "done"
        /\ phase[s] \in {"joining", "joined", "done"} =>
              /\ worker[s] = "ended"
              /\ queue[s] = <<>>
        /\ IF phase[s] = "done"
           THEN /\ Len(emitted[s]) = Len(enq[s]) + 1
                /\ SubSeq(emitted[s], 1, Len(enq[s])) = enq[s]
           ELSE EmittedPrefix(s)

\* C6 witness: a stream whose worker raised after a progress snapshot has
\* emitted both snapshots and the final status
FinalStatusAfterSnapshotsWitness ==
    \E s \in Streams :
        /\ phase[s] = "done"
        /\ Len(enq[s]) >= 2
        /\ enq[s][Len(enq[s])].error = "raise"
        /\ Len(emitted[s]) = Len(enq[s]) + 1

\* C7: the consumer always terminates, and then emits one final status,
\* even if the worker never finishes its run
ConsumerTerminates ==
    \A s \in Streams : (phase[s] = "streaming") ~> (phase[s] \in {"done", "closed"})

\* C7 as amended: once the worker's run has returned or raised, the consumer
\* terminates: it takes the sentinel, waits a bounded time for the thread and
\* emits one final status (or the client has gone and the generator is closed)
ConsumerTerminatesAfterRun ==
    /\ \A s \in Streams :
          (phase[s] = "streaming" /\ worker[s] # "running")
             ~> (phase[s] \in {"done", "closed"})
    /\ [](\A s \in Streams : phase[s] = "done" => finals[s] = 1 /\ worker[s] = "ended")

\* C7 witness: a consumer has ended with its final status after a run that
\* returned
ConsumerTerminatesAfterRunWitness ==
    \E s \in Streams :
        /\ phase[s] = "done"
        /\ finals[s] = 1
        /\ worker[s] = "ended"
        /\ emitted[s][Len(emitted[s])].status = "complete"

(***************************************************************************)
(* Claims about the event group processor                                  *)
(***************************************************************************)
\* C8: under duplicate_event_handling = consolidate there is at most one
\* ManagedChannel per (group, event), and when several streams of a run match
\* one event each of them is recorded against that one channel
ConsolidateOneChannel ==
    group.duplicate_event_handling = "consolidate" =>
        /\ \A c1, c2 \in channels :
              (c1.group = c2.group /\ c1.event = c2.event) => c1 = c2
        /\ (run.invoked /\ run.fail = {}) =>
              \A i \in 1..Len(run.fetched) :
                 (/\ run.results[i].matched
                  /\ TimingSatisfied(group.create_timing, run.results[i].event, run.day))
                 => \E c \in channels :
                       /\ c.event = run.results[i].event
                       /\ run.fetched[i].id \in c.streams

LifecycleErrorsCounted ==
    run.invoked =>
        LET failed == {i \in 1..Len(run.calls) : run.calls[i] \in run.fail}
            listed == SelectSeq(result.errors, LAMBDA e : e.text = "Channel error")
        IN  /\ \A i, j \in 1..Len(run.calls) : run.calls[i] = run.calls[j] => i = j
            /\ result.channel_errors = Cardinality(failed)
            /\ Len(listed) = result.channel_errors
            /\ Len(listed) = Len(result.errors)
            /\ {listed[i].item : i \in 1..Len(listed)} = {run.calls[i] : i \in failed}
            /\ result.channels_created + result.channels_existing
                 + result.channels_skipped + result.channel_errors = Len(run.matched)

\* C10 witness: the call for the first matched item failed and the second
\* item was still processed
LifecycleErrorsCountedWitness ==
    /\ run.invoked
    /\ run.fail = {1}
    /\ run.calls = <<1, 2>>
    /\ result.channel_errors = 1
    /\ result.channels_created = 1

(***************************************************************************)
(* Further claims about the caches                                         *)
(***************************************************************************)
\* C19: a durable get that finds an undecodable payload is a miss: it
\* returns absent, deletes the row, and is counted in the miss counter and
\* not in the hit counter
CorruptIsMiss ==
    [][\A k \in PersistentKeys :
          (/\ PersistentGet(k)
           /\ k \in DOMAIN service_cache
           /\ ~IsExpired(now, FromIsoFormat(service_cache[k].expires_at))
           /\ ~Decodable(service_cache[k].data_json))
          => /\ ret' = None
             /\ k \notin DOMAIN service_cache'
             /\ misses' = misses + 1
             /\ hits' = hits
      ]_vars

(***************************************************************************)
(* Claims about the historical event store                                 *)
(***************************************************************************)

\* C20: the store holds finalized dates only: every row's date is earlier
\* than the day the row was written, a cache_events call for today or later
\* leaves the table alone, and one for an earlier date stores or replaces
\* the row of its key and no other
OnlyFinalizedDates ==
    /\ [](\A k \in DOMAIN provider_cache :
             FromIsoFormat(k[3]) < provider_cache[k].written_on)
    /\ [][\A provider \in Providers, league \in StoreLeagues,
             event_date \in EventDates(today), events \in EventLists :
             CacheEventsBegin(provider, league, event_date, events)
             => /\ UNCHANGED provider_cache
                /\ cachePending'.active <=> event_date < today
         ]_vars
    /\ [][CacheEventsCommit
          => /\ FromIsoFormat(cachePending.key[3]) < today
             /\ DOMAIN provider_cache'
                   = DOMAIN provider_cache \cup {cachePending.key}
             /\ provider_cache'[cachePending.key].events_json
                   = cachePending.events
             /\ \A k \in DOMAIN provider_cache \ {cachePending.key} :
                   provider_cache'[k] = provider_cache[k]
         ]_vars

\* two rows are stored, one written the day after its date and one, whose
\* INSERT came a day after its date check, later than that
OnlyFinalizedDatesWitness ==
    \E k1, k2 \in DOMAIN provider_cache :
        /\ provider_cache[k1].written_on = FromIsoFormat(k1[3]) + 1
        /\ FromIsoFormat(k2[3]) = -1
        /\ provider_cache[k2].written_on = 1

(***************************************************************************)
(* Claims about stream matching with the fingerprint cache                 *)
(***************************************************************************)
SameButOrigin(a, b) ==
    [a EXCEPT !.from_cache = FALSE] = [b EXCEPT !.from_cache = FALSE]

HitsIn(results) == Cardinality({i \in 1..Len(results) : results[i].from_cache})

\* C11: a stream (group, id, name) matched in two successive batches with no
\* change of event data gets the identical result both times, and the second
\* time it is a cache hit, counted in cache_hits and not in cache_misses
SecondMatchFromCache ==
    [][LET request == response'.request IN
          (/\ MatchStreams(request)
           /\ request.group_id = response.request.group_id
           /\ ~feedChanged)
          => /\ \A i \in 1..Len(request.streams),
                   j \in 1..Len(response.request.streams) :
                   request.streams[i] = response.request.streams[j]
                   => /\ response'.body.results[i].from_cache
                      /\ SameButOrigin(response'.body.results[i],
                                       response.body.results[j])
             /\ response'.body.cache_hits = HitsIn(response'.body.results)
             /\ response'.body.cache_misses
                   = Len(request.streams) - HitsIn(response'.body.results)
      ]_vars

\* the same two streams were matched again, both from the cache, one with and
\* one without an event
SecondMatchFromCacheWitness ==
    /\ ~feedChanged
    /\ response.body.cache_hits = 2
    /\ response.body.cache_misses = 0
    /\ response.body.results[1].matched
    /\ ~response.body.results[2].matched
    /\ response.request.streams[1] # response.request.streams[2]

BatchPartitionsInput ==
    LET body == response.body
        streams == response.request.streams
    IN  /\ Len(body.results) = Len(streams)
        /\ \A i \in 1..Len(streams) :
              body.results[i].stream_name = streams[i].name
        /\ body.total = Len(streams)
        /\ body.cache_hits + body.cache_misses = body.total
        /\ body.matched + body.unmatched = body.total
        /\ body.cache_hits = HitsIn(body.results)
        /\ body.matched
              = Cardinality({i \in 1..Len(body.results) : body.results[i].matched})
        /\ body.total = 0
              => /\ body.match_rate = Rate(0, 1)
                 /\ body.cache_hit_rate = Rate(0, 1)
        /\ body.total > 0
              => /\ body.match_rate = <<body.matched, body.total>>
                 /\ body.cache_hit_rate = <<body.cache_hits, body.total>>

\* a batch of two streams with one hit and one miss, one matched and one not
BatchPartitionsInputWitness ==
    /\ response.body.total = 2
    /\ response.body.cache_hits = 1
    /\ response.body.cache_misses = 1
    /\ response.body.matched = 1
    /\ response.body.unmatched = 1
    /\ response.body.results[1].stream_name # response.body.results[2].stream_name

(***************************************************************************)
(* Claims about reconciliation                                             *)
(***************************************************************************)

\* C15: a pass with auto_fix repairs only issues flagged auto_fixable, a pass
\* without it changes neither the local records nor the external channels;
\* either way every detected issue is in the returned list, and issues_fixed
\* plus issues_skipped covers every issue of a repairing pass and none of a
\* reporting one
RepairsOnlyAutoFixable ==
    [][\A auto_fix \in BOOLEAN, fail \in RepairFailures :
          Reconcile(auto_fix, fail)
          => LET found == Detect(managed, external)
                 fixable == {k \in 1..Len(found) : found[k].auto_fixable}
             IN  /\ reconciled'.issues_found = found
                 /\ \A m \in ManagedIds :
                       (m \in DOMAIN managed) # (m \in DOMAIN managed')
                       => \E k \in fixable : found[k].managed_channel_id = m
                 /\ \A m \in DOMAIN managed \cap DOMAIN managed' :
                       managed'[m] = managed[m]
                 /\ \A e \in ExternalIds :
                       \/ /\ e \in DOMAIN external \cap DOMAIN external'
                          /\ external'[e] = external[e]
                       \/ e \notin DOMAIN external \cup DOMAIN external'
                       \/ \E k \in fixable : found[k].dispatcharr_channel_id = e
                 /\ ~auto_fix
                       => /\ UNCHANGED <<managed, external>>
                          /\ reconciled'.issues_fixed = 0
                          /\ reconciled'.issues_skipped = 0
                 /\ auto_fix
                       => /\ reconciled'.issues_fixed + reconciled'.issues_skipped
                                = Len(found)
                          /\ reconciled'.issues_fixed <= Cardinality(fixable)
                          /\ reconciled'.issues_skipped
                                >= Len(found) - Cardinality(fixable)
      ]_vars

\* a repairing pass met a duplicate it could not repair, repaired an issue
\* and skipped another whose repair failed
RepairsOnlyAutoFixableWitness ==
    /\ reconciled.made
    /\ reconciled.auto_fix
    /\ \E k \in 1..Len(reconciled.issues_found) :
          ~reconciled.issues_found[k].auto_fixable
    /\ reconciled.issues_fixed > 0
    /\ reconciled.errors # <<>>
    /\ reconciled.issues_skipped >= 2

(***************************************************************************)
(* Further claims about the event group processor                          *)
(***************************************************************************)

\* C16: a run whose stream fetch gives no streams (no client, the call
\* failed, or nothing listed) records the error and stops: the provider is
\* not asked, nothing is matched, the lifecycle service is not called, the
\* channels stay as they are, and the caller gets a completed result
NoStreamsStopsRun ==
    /\ [](run.made /\ run.fetched = <<>>
            => /\ result.completed
               /\ result.errors = <<Error("No streams found for group", 0)>>
               /\ result.streams_fetched = 0
               /\ run.asked = <<>>
               /\ run.events = {}
               /\ run.results = <<>>
               /\ run.matched = <<>>
               /\ ~run.invoked
               /\ run.calls = <<>>
               /\ run.raised = "none")
    /\ [][run'.made /\ run' # run /\ run'.fetched = <<>>
            => UNCHANGED channels]_vars
    /\ [](run.made /\ run.source # "listed" => run.fetched = <<>>)

\* a run whose stream call failed ended with the error, channels of an
\* earlier run being there
NoStreamsStopsRunWitness ==
    /\ run.made
    /\ run.source = "call_failed"
    /\ run.fetched = <<>>
    /\ result.errors = <<Error("No streams found for group", 0)>>
    /\ channels # {}

\* C17: when the provider fetch fails for one of the group's leagues, the
\* failure is recorded as a string in the group's result
ProviderFailureRecorded ==
    (/\ run.made
     /\ run.asked # <<>>
     /\ \E i \in 1..Len(run.asked) : run.asked[i] \in run.down)
    => result.errors # <<>>

\* C18: a batch holds exactly one completed result per active group, in the
\* order of the groups, also when the processing of a group raises: the
\* exception is listed in that group's errors and the groups after it are
\* processed as they would be without it
OneResultPerGroup ==
    batch_result.made =>
        /\ batch_result.completed
        /\ Len(batch_result.results) = Len(batch_result.groups)
        /\ \A k \in 1..Len(batch_result.groups) :
              LET r == batch_result.results[k]
              IN  /\ r.group_id = batch_result.groups[k]
                  /\ r.completed
                  /\ batch_result.raised[k]
                        => \E i \in 1..Len(r.errors) : r.errors[i] = Raised("any")
                  /\ batch_result.sources[k] = "listed" => r.streams_fetched = 2
                  /\ batch_result.sources[k] # "listed"
                        => r.errors = <<Error("No streams found for group", 0)>>

\* the first group of a batch raised, and the second was processed to the
\* end and has its channel
OneResultPerGroupWitness ==
    /\ batch_result.made
    /\ Len(batch_result.groups) = 2
    /\ batch_result.raised[1]
    /\ ~batch_result.raised[2]
    /\ batch_result.results[2].errors = <<>>
    /\ batch_result.results[2].channels_created = 1

(***************************************************************************)
(* Further claims about the historical event store                         *)
(***************************************************************************)

\* C26: a get_cached_events that finds a row whose payload does not
\* deserialize is a miss: it returns absent and deletes the row
CorruptRowDeleted ==
    [][\A provider \in Providers, league \in StoreLeagues,
          event_date \in EventDates(today) :
          LET k == StoreKey(provider, league, event_date)
          IN  (/\ GetCachedEvents(provider, league, event_date)
               /\ k \in DOMAIN provider_cache
               /\ ~Decodable(provider_cache[k].events_json))
              => /\ cachedRet' = NotCached
                 /\ k \notin DOMAIN provider_cache'
      ]_vars

(***************************************************************************)
(* Further claims about the event group processor                          *)
(***************************************************************************)

\* the positions of the fetched streams whose match result is matched and
\* included
IncludedPositions ==
    {i \in 1..Len(run.fetched) :
        run.results[i].matched /\ run.results[i].included}

\* C30: the list handed to the lifecycle service holds each fetched stream
\* that was matched and included exactly once, paired with the event of that
\* stream's own match result, and nothing else; also when two fetched
\* streams of different ids carry one name
LifecycleListExact ==
    run.invoked =>
        /\ Len(run.matched) = Cardinality(IncludedPositions)
        /\ \A i \in IncludedPositions :
              Cardinality({k \in 1..Len(run.matched) :
                              run.matched[k].stream = run.fetched[i]}) = 1
        /\ \A k \in 1..Len(run.matched) :
              \E i \in IncludedPositions :
                 /\ run.matched[k].stream = run.fetched[i]
                 /\ run.matched[k].event = run.results[i].event

(***************************************************************************)
(* Further claims about the refresh status record                          *)
(***************************************************************************)

\* in_progress is true exactly when a start_refresh has succeeded and no
\* complete_refresh or fail_refresh has followed it
FlagFollowsStarts == refresh.in_progress <=> refreshWins > 0

\* C29: after any interleaving of start_refresh, update_refresh_status,
\* complete_refresh and fail_refresh the record is consistent: in_progress is
\* true exactly when a start succeeded and no complete or fail followed, and
\* status is one of idle, complete, error exactly when in_progress is false
RefreshRecordConsistent ==
    /\ FlagFollowsStarts
    /\ refresh.status \in {"idle", "complete", "error"} <=> ~refresh.in_progress

(***************************************************************************)
(* Further claims about the caches                                         *)
(***************************************************************************)

\* C25: when a new key is set into a TTLCache at capacity, the expired
\* entries are removed before any LRU eviction: every expired entry goes, an
\* unexpired entry goes only if max_size or more entries are left after that,
\* and then only as many go as it takes to get below max_size
ExpiredBeforeLru ==
    [][\A k \in Keys, v \in Values, s \in TtlArgs :
          (/\ SetCommit(k, v, s)
           /\ ~Has(cache, k)
           /\ Len(cache) >= MaxSize)
          => LET expired == ExpiredKeys(cache, now)
                 removed == KeysOf(cache) \ KeysOf(cache')
                 left == Len(cache) - Cardinality(expired)
             IN  /\ expired \subseteq removed
                 /\ Cardinality(removed \ expired) =
                       IF left >= MaxSize THEN left - (MaxSize - 1) ELSE 0
      ]_cacheVars

\* C25 witness: a set into a full cache swept one expired entry and evicted
\* no unexpired one
ExpiredBeforeLruWitness ==
    /\ variant = "memory"
    /\ Len(cache) = MaxSize
    /\ evict.swept = 1
    /\ evict.lru = 0

\* C21: every access of a PersistentTTLCache to the shared store (get, set,
\* delete, clear, cleanup_expired, stats and the size query) is made while
\* the thread holds the one process-wide lock, so no two store accesses
\* overlap, whatever instances the threads use
StoreAccessUnderLock ==
    /\ \A t \in Threads : storeCall[t].pc = "db" => persistent_cache_lock = t
    /\ \A t, u \in Threads :
          (storeCall[t].pc = "db" /\ storeCall[u].pc = "db") => t = u

(***************************************************************************)
(* Further claims about EPG generation                                     *)
(***************************************************************************)

\* once the worker thread of a stream runs, its run is followed by
\* complete_generation or fail_generation, whatever the client does
StartedWorkerEnds ==
    \A s \in Streams : (worker[s] = "running") ~> (worker[s] # "running")

\* C27: every successful start_generation of the streamed endpoint is
\* eventually followed by complete_generation or fail_generation, so that
\* in_progress returns to false, provided run_full_generation returns or
\* raises; also when the client never reads or stops reading the response
StartIsFollowedByEnd ==
    \A s \in Streams : (phase[s] = "accepted") ~> ~gen.in_progress

\* C28: the final status a progress stream emits describes the run this
\* stream started: it is a terminal status of that run (complete or error,
\* in_progress false), also when other requests start a new generation after
\* this stream's worker has finished.  The formula states what this implies
\* for every stream that has emitted its final status: that status is terminal
FinalStatusIsTerminal ==
    \A s \in Streams :
        phase[s] = "done" =>
            LET final == emitted[s][Len(emitted[s])]
            IN  /\ ~final.in_progress
                /\ final.status \in {"complete", "error"}

(***************************************************************************)
(* Claims about get_events_cache_ttl                                       *)
(***************************************************************************)

WholeUnitAt(name, term, i) ==
    LET literal == StrLower(term)
        after == i + Len(literal)
    IN  /\ OccursAt(name, literal, i)
        /\ IF IsWordChar(term[1])
           THEN WordAt(name, i - 1) # WordAt(name, i)
           ELSE ~WordAt(name, i - 1)
        /\ IF IsWordChar(term[Len(term)])
           THEN WordAt(name, after - 1) # WordAt(name, after)
           ELSE ~WordAt(name, after)

\* the keywords of the call that have a term occurring so
KeywordHits ==
    LET name == StrLower(keyword_call.stream_name)
    IN  {k \in 1..Len(keyword_call.keywords) :
            \E n \in 1..Len(keyword_call.keywords[k].match_term_list),
               i \in 1..Len(name) :
                WholeUnitAt(name, keyword_call.keywords[k].match_term_list[n], i)}

\* C24: check_exception_keyword returns the label and behavior of the first
\* keyword, in list order, that has a term occurring in the lowercased stream
\* name as a whole unit, and the empty result when no term occurs so; "(ESP)"
\* matches "NFL (ESP) feed" and "Eli" does not match inside "Pelicans"
FirstKeywordAsWholeUnit ==
    keyword_call.returned =>
        /\ IF KeywordHits = {}
           THEN keyword_call.result = NoKeyword
           ELSE \E k \in KeywordHits :
                   /\ \A m \in KeywordHits : k <= m
                   /\ keyword_call.result.label = keyword_call.keywords[k].label
                   /\ keyword_call.result.behavior = keyword_call.keywords[k].behavior
        /\ (/\ keyword_call.stream_name = NameEspFeed
            /\ \E k \in 1..Len(keyword_call.keywords) :
                  keyword_call.keywords[k].label = "Spanish")
           => keyword_call.result # NoKeyword
        /\ (/\ keyword_call.stream_name = NamePelicans
            /\ \A k \in 1..Len(keyword_call.keywords) :
                  keyword_call.keywords[k].label = "Eli")
           => keyword_call.result = NoKeyword

\* C24 witness: for "NFL (ESP) feed" the keyword of term "Eli" comes first
\* and does not match, the keyword of term "(ESP)" comes second and is returned
FirstKeywordAsWholeUnitWitness ==
    /\ keyword_call.returned
    /\ keyword_call.stream_name = NameEspFeed
    /\ Len(keyword_call.keywords) = 2
    /\ keyword_call.keywords[1].label = "Eli"
    /\ keyword_call.keywords[2].label = "Spanish"
    /\ keyword_call.result = [label |-> "Spanish", behavior |-> "separate"]

(***************************************************************************)
(* Claims about matches_any                                                *)
(***************************************************************************)

\* the pattern is in the text as a whole word: between two word boundaries
WholeWordIn(pattern, t) ==
    \E i \in 1..Len(t) :
        /\ OccursAt(t, pattern, i)
        /\ WordAt(t, i - 1) # WordAt(t, i)
        /\ WordAt(t, i + Len(pattern) - 1) # WordAt(t, i + Len(pattern))

\* every pattern of the call is a single word and distinctive
OnlySingleWordDistinctive ==
    \A n \in 1..Len(fuzzy_call.patterns) :
        /\ fuzzy_call.patterns[n].is_distinctive
        /\ ~HasSpace(fuzzy_call.patterns[n].pattern)

====
